---- MODULE Spec2Model ----
(***************************************************************************)
(* Verification and reconciliation engine of the SafeSol gating bot:       *)
(* challenge issuance (/verify), confirmation (/confirm), the admin        *)
(* whitelist, join requests, membership updates and the ownership sweep.   *)
(*                                                                         *)
(* Token amounts are written in units of 1e-9 token (the precision of a    *)
(* challenge amount) and compared as the doubles they parse to; times are  *)
(* minutes.  An async handler is a task whose pc names the await it is     *)
(* suspended on; every step between two awaits is one action, so handlers  *)
(* interleave exactly where the event loop lets them.  A remote call is    *)
(* resolved by the action that resumes the task: its result is drawn there *)
(* (ledger reads, Telegram success or failure).                            *)
(***************************************************************************)
EXTENDS Integers, Sequences, FiniteSets, TLC

----------------------------------------------------------------------------
(* Configuration and input domains *)

Users == {"u1", "u2"}
adminIds == {"admin"}
Senders == Users \cup adminIds
Wallets == {"w1", "w2"}
Groups == {"g1", "g2"}

NullStr == ""
NullNum == -1

VERIFICATION_WINDOW_MINUTES == 30
TOLERANCE == 1000
SEARCH_LIMIT == 25
minTokenCode == 1000
maxTokenCode == 9000
RequiredNum == 1
RequiredDen == 1000

\* amounts the issuer can draw, a sample of [minTokenCode, maxTokenCode]
CodeChoices == {2000, 6000}
\* ledger readings returned by the RPC node
Supplies == {0, 10000}
Balances == {5, 10}
\* clock advance between two events: onto the expiry of a challenge issued at
\* 0, and just past it
TickSteps == {VERIFICATION_WINDOW_MINUTES, VERIFICATION_WINDOW_MINUTES + 1}

MaxNow == 31
MaxHist == 1
MaxScan == 2
MaxUnits == 12
MaxSupply == 80
RandBits == 6
MaxRandBits == 20

----------------------------------------------------------------------------
(* Record store (db/drizzle.ts) *)

EmptyRow ==
  [present |-> FALSE, id |-> 0, walletAddress |-> NullStr, verificationCode |-> NullNum,
   verificationExpiresAt |-> NullNum, verified |-> FALSE, verifiedAt |-> NullNum,
   lastBalance |-> NullNum, lastCheckedAt |-> NullNum, isWhitelisted |-> FALSE,
   requestedGroupId |-> NullStr]

NoPayload == [wallet |-> NullStr, amount |-> NullNum, expires |-> NullNum, group |-> NullStr]

\* a store d is the users table and the rows the running step has appended to
\* verification_events (the table is append-only and never read back)
Store(table) == [users |-> table, logged |-> << >>]

insertEvent(d, u, type, pl) ==
  [d EXCEPT !.logged = Append(@, [userId |-> u, eventType |-> type, payload |-> pl])]

\* INSERT gives the row the next AUTOINCREMENT id
upsertUser(d, u) ==
  IF d.users[u].present THEN d
  ELSE [d EXCEPT !.users[u] =
          [EmptyRow EXCEPT !.present = TRUE,
                           !.id = Cardinality({x \in Users : d.users[x].present}) + 1]]

\* (variant: the verified flag survives a new request)
saveVerificationRequestKeepVerified(d, u, wallet, code, expiresAt, requestedGroupId) ==
  LET d1 == upsertUser(d, u)
      d2 == [d1 EXCEPT !.users[u] =
               [@ EXCEPT !.walletAddress = wallet,
                         !.verificationCode = code,
                         !.verificationExpiresAt = expiresAt,
                         !.requestedGroupId =
                            IF requestedGroupId # NullStr THEN requestedGroupId ELSE @]]
  IN insertEvent(d2, u, "verification_requested",
                 [NoPayload EXCEPT !.wallet = wallet, !.amount = code, !.expires = expiresAt])

\* (variant: a new request also resets the whitelist flag)
saveVerificationRequestResetsWhitelist(d, u, wallet, code, expiresAt, requestedGroupId) ==
  LET d1 == upsertUser(d, u)
      d2 == [d1 EXCEPT !.users[u] =
               [@ EXCEPT !.walletAddress = wallet,
                         !.verificationCode = code,
                         !.verificationExpiresAt = expiresAt,
                         !.verified = FALSE,
                         !.isWhitelisted = FALSE,
                         !.requestedGroupId =
                            IF requestedGroupId # NullStr THEN requestedGroupId ELSE @]]
  IN insertEvent(d2, u, "verification_requested",
                 [NoPayload EXCEPT !.wallet = wallet, !.amount = code, !.expires = expiresAt])

saveVerificationRequest(d, u, wallet, code, expiresAt, requestedGroupId) ==
  LET d1 == upsertUser(d, u)
      d2 == [d1 EXCEPT !.users[u] =
               [@ EXCEPT !.walletAddress = wallet,
                         !.verificationCode = code,
                         !.verificationExpiresAt = expiresAt,
                         !.verified = FALSE,
                         !.requestedGroupId =
                            IF requestedGroupId # NullStr THEN requestedGroupId ELSE @]]
  IN insertEvent(d2, u, "verification_requested",
                 [NoPayload EXCEPT !.wallet = wallet, !.amount = code, !.expires = expiresAt])

\* (variant: the evaluated balance is not stored)
markVerifiedNoBalance(d, u, balance, t) ==
  IF ~d.users[u].present THEN d
  ELSE insertEvent(
         [d EXCEPT !.users[u] = [@ EXCEPT !.verified = TRUE, !.verifiedAt = t,
                                          !.lastCheckedAt = t]],
         u, "verified", [NoPayload EXCEPT !.amount = balance])

\* (variant: verified_at is not written)
markVerifiedNoStamp(d, u, balance, t) ==
  IF ~d.users[u].present THEN d
  ELSE insertEvent(
         [d EXCEPT !.users[u] = [@ EXCEPT !.verified = TRUE, !.lastBalance = balance,
                                          !.lastCheckedAt = t]],
         u, "verified", [NoPayload EXCEPT !.amount = balance])

markVerified(d, u, balance, t) ==
  IF ~d.users[u].present THEN d
  ELSE insertEvent(
         [d EXCEPT !.users[u] = [@ EXCEPT !.verified = TRUE, !.verifiedAt = t,
                                          !.lastBalance = balance, !.lastCheckedAt = t]],
         u, "verified", [NoPayload EXCEPT !.amount = balance])

\* (variant: only the time of the check is stored)
updateBalanceStampOnly(d, u, balance, t) ==
  IF ~d.users[u].present THEN d
  ELSE [d EXCEPT !.users[u] = [@ EXCEPT !.lastCheckedAt = t]]

updateBalance(d, u, balance, t) ==
  IF ~d.users[u].present THEN d
  ELSE [d EXCEPT !.users[u] = [@ EXCEPT !.lastBalance = balance, !.lastCheckedAt = t]]

setWhitelist(d, u, flag) ==
  LET d1 == upsertUser(d, u)
  IN insertEvent([d1 EXCEPT !.users[u].isWhitelisted = flag], u, "whitelist_updated", NoPayload)

\* (variant: only the code is cleared)
clearVerificationKeepsExpiry(d, u) ==
  IF ~d.users[u].present THEN d
  ELSE [d EXCEPT !.users[u] = [@ EXCEPT !.verificationCode = NullNum]]

clearVerification(d, u) ==
  IF ~d.users[u].present THEN d
  ELSE [d EXCEPT !.users[u] = [@ EXCEPT !.verificationCode = NullNum,
                                        !.verificationExpiresAt = NullNum]]

setRequestedGroup(d, u, g) ==
  LET d1 == upsertUser(d, u)
  IN insertEvent([d1 EXCEPT !.users[u].requestedGroupId = g], u, "group_requested",
                 [NoPayload EXCEPT !.group = g])

clearRequestedGroup(d, u) ==
  IF ~d.users[u].present THEN d
  ELSE insertEvent([d EXCEPT !.users[u].requestedGroupId = NullStr], u, "group_cleared", NoPayload)

recordInviteLink(d, u, g) ==
  insertEvent(upsertUser(d, u), u, "invite_link_created", [NoPayload EXCEPT !.group = g])

logEvent(d, u, type, pl) == insertEvent(upsertUser(d, u), u, type, pl)

\* rows of SELECT * FROM users WHERE verified = 1, in id order
RECURSIVE RowsFrom(_, _)
RowsFrom(d, k) ==
  IF k > Cardinality(Users) THEN << >>
  ELSE LET hit == {u \in Users : d.users[u].present /\ d.users[u].id = k /\ d.users[u].verified}
       IN IF hit = {} THEN RowsFrom(d, k + 1)
          ELSE LET u == CHOOSE x \in hit : TRUE
               IN <<[telegramId |-> u, isWhitelisted |-> d.users[u].isWhitelisted,
                     walletAddress |-> d.users[u].walletAddress]>> \o RowsFrom(d, k + 1)

getVerifiedUsers(d) == RowsFrom(d, 1)

----------------------------------------------------------------------------
(* Ledger queries (services/solana.ts) *)

Abs(x) == IF x < 0 THEN -x ELSE x

\* Amounts are JavaScript numbers, IEEE-754 doubles.  A double is a sign and a
\* magnitude; the magnitude is the exact value in units of 2^-FracBits, written
\* as FixWidth bits, most significant first, of which at most Mantissa
\* consecutive ones are significant.  The values of the model lie in
\* [2^-27, 2^16) or are zero, where this is exact.
FracBits == 80
FixWidth == 96
Mantissa == 53

Zeros(k) == [i \in 1..k |-> 0]

\* the w low bits of the natural n (w <= 31)
Bits(n, w) == [i \in 1..w |-> (n \div 2^(w - i)) % 2]

\* n * 2^k
Shifted(n, k) == Bits(n, FixWidth - k) \o Zeros(k)

\* the bytes of a bit string, and back
Pack(x) ==
  [j \in 1..(Len(x) \div 8) |->
     128 * x[8*j - 7] + 64 * x[8*j - 6] + 32 * x[8*j - 5] + 16 * x[8*j - 4]
     + 8 * x[8*j - 3] + 4 * x[8*j - 2] + 2 * x[8*j - 1] + x[8*j]]
Unpack(l) == [i \in 1..(8 * Len(l)) |-> (l[(i - 1) \div 8 + 1] \div 2^(7 - ((i - 1) % 8))) % 2]

\* long division of the bytes l by the natural D < 2^21
RECURSIVE DivBytes(_, _, _, _, _)
DivBytes(l, D, i, r, q) ==
  IF i > Len(l) THEN [q |-> q, r |-> r]
  ELSE LET r2 == 256 * r + l[i]
       IN DivBytes(l, D, i + 1, r2 % D, Append(q, r2 \div D))

DivBits(x, D) == LET dv == DivBytes(Pack(x), D, 1, 0, << >>) IN [q |-> Unpack(dv.q), r |-> dv.r]

RECURSIVE AddBytes(_, _, _, _)
AddBytes(l, m, i, c) ==
  IF i = 0 THEN << >>
  ELSE LET sum == l[i] + m[i] + c IN Append(AddBytes(l, m, i - 1, sum \div 256), sum % 256)

Plus(x, y) == Unpack(AddBytes(Pack(x), Pack(y), Len(x) \div 8, 0))
\* x - y for x >= y
Minus(x, y) == Unpack(AddBytes(Pack(x), Pack([i \in 1..Len(y) |-> 1 - y[i]]), Len(x) \div 8, 1))
Less(x, y) == \E i \in 1..Len(x) : x[i] < y[i] /\ \A j \in 1..(i - 1) : x[j] = y[j]

\* position of the leading one, 0 for zero
Lead(x) ==
  IF \E i \in 1..Len(x) : x[i] = 1
  THEN CHOOSE i \in 1..Len(x) : x[i] = 1 /\ \A j \in 1..(i - 1) : x[j] = 0
  ELSE 0

\* round to nearest, ties to even, to Mantissa significant bits; sticky tells
\* that the exact value lies above x
RoundBits(x, sticky) ==
  LET last == Lead(x) + Mantissa - 1
  IN IF Lead(x) = 0 \/ last >= Len(x) THEN x
     ELSE LET kept == [i \in 1..Len(x) |-> IF i <= last THEN x[i] ELSE 0]
              rest == sticky \/ \E i \in (last + 2)..Len(x) : x[i] = 1
              up == x[last + 1] = 1 /\ (rest \/ x[last] = 1)
          IN IF up THEN Plus(kept, [i \in 1..Len(x) |-> IF i = last THEN 1 ELSE 0])
             ELSE kept

\* the double nearest to n / (D * 2^k): what parsing a decimal literal yields
Ratio(n, D, k) ==
  LET dv == DivBits(Shifted(Abs(n), FracBits - k), D)
  IN [neg |-> n < 0, mag |-> RoundBits(dv.q, dv.r # 0)]

FNeg(a) == [neg |-> ~a.neg, mag |-> a.mag]
FAdd(a, b) ==
  IF a.neg = b.neg THEN [neg |-> a.neg, mag |-> RoundBits(Plus(a.mag, b.mag), FALSE)]
  ELSE IF Less(a.mag, b.mag)
       THEN [neg |-> b.neg, mag |-> RoundBits(Minus(b.mag, a.mag), FALSE)]
       ELSE [neg |-> a.neg /\ a.mag # b.mag, mag |-> RoundBits(Minus(a.mag, b.mag), FALSE)]
FSub(a, b) == FAdd(a, FNeg(b))
FAbs(a) == [neg |-> FALSE, mag |-> a.mag]
FLess(a, b) ==
  IF Lead(a.mag) = 0 /\ Lead(b.mag) = 0 THEN FALSE
  ELSE IF a.neg # b.neg THEN a.neg
  ELSE IF a.neg THEN Less(b.mag, a.mag) ELSE Less(a.mag, b.mag)
FLeq(a, b) == ~FLess(b, a)
\* the bytes l times the natural k < 2^21
RECURSIVE MulBytes(_, _, _, _)
MulBytes(l, k, i, c) ==
  IF i = 0 THEN << >>
  ELSE LET p == l[i] * k + c IN Append(MulBytes(l, k, i - 1, p \div 256), p % 256)

Times(x, k) == Unpack(MulBytes(Pack(x), k, Len(x) \div 8, 0))
ShiftLeft(x, j) == [i \in 1..Len(x) |-> IF i + j <= Len(x) THEN x[i + j] ELSE 0]
ShiftRight(x, j) == [i \in 1..Len(x) |-> IF i - j >= 1 THEN x[i - j] ELSE 0]
\* whether ShiftRight(x, j) drops a one
Dropped(x, j) == \E i \in (Len(x) - j + 1)..Len(x) : x[i] = 1

\* a * b for the double b = k * 2^j, k < 2^21 (j of either sign)
FScale(a, k, j) ==
  LET p == Times(a.mag, k)
  IN [neg |-> a.neg,
      mag |-> IF j >= 0 THEN RoundBits(ShiftLeft(p, j), FALSE)
              ELSE RoundBits(ShiftRight(p, -j), Dropped(p, -j))]

\* Math.round of a double a >= 0, as an integer: halves go up
MathRound(a) ==
  LET l == Pack(a.mag) IN 256 * l[1] + l[2] + a.mag[FixWidth - FracBits + 1]

\* a / s for a whole number s in 1 .. 2^21 - 1
FDiv(a, s) ==
  LET dv == DivBits(a.mag, s)
  IN [neg |-> a.neg, mag |-> RoundBits(dv.q, dv.r # 0)]

\* the number a uiAmount of n units of 1e-9 token parses to
Amount(n) == Ratio(n, 5^9, 9)
\* the number a reading of n whole tokens parses to
Whole(n) == Ratio(n, 1, 0)

\* (variant: the comparison is strict)
almostEqualStrict(a, b) == FLess(FAbs(FSub(a, b)), Amount(TOLERANCE))

almostEqual(a, b) == FLeq(FAbs(FSub(a, b)), Amount(TOLERANCE))

\* Number(x || 0) on an optional uiAmount
UiAmount(x) == IF x = NullNum THEN Amount(0) ELSE Amount(x)

\* the amounts transferred: the codes, and amounts half a tolerance above them
TransferAmounts == CodeChoices \cup {a + TOLERANCE \div 2 : a \in CodeChoices}

\* the uiAmounts on the ledger
LedgerAmounts ==
  {NullNum, 0, maxTokenCode} \cup TransferAmounts \cup {maxTokenCode - a : a \in TransferAmounts}

\* whether the uiAmount "from" less the uiAmount "to" is the expected amount, on
\* every such triple, computed once
DeltaMatches ==
  [from \in LedgerAmounts, to \in LedgerAmounts, expectedAmount \in CodeChoices |->
     almostEqual(FSub(UiAmount(from), UiAmount(to)), Amount(expectedAmount))]

\* (variant: an absent balance entry counts as zero on every side)
TxMatchesAbsentAsZero(tx, expectedAmount) ==
  /\ tx.meta
  /\ DeltaMatches[tx.userPre, tx.userPost, expectedAmount]
  /\ DeltaMatches[tx.treasuryPost, tx.treasuryPre, expectedAmount]

\* (variant: only the holder's side is compared)
TxMatchesUserSide(tx, expectedAmount) ==
  /\ tx.meta
  /\ tx.userPre # NullNum /\ tx.userPost # NullNum /\ tx.treasuryPost # NullNum
  /\ DeltaMatches[tx.userPre, tx.userPost, expectedAmount]

TxMatches(tx, expectedAmount) ==
  /\ tx.meta
  /\ tx.userPre # NullNum /\ tx.userPost # NullNum /\ tx.treasuryPost # NullNum
  /\ DeltaMatches[tx.userPre, tx.userPost, expectedAmount]
  /\ DeltaMatches[tx.treasuryPost, tx.treasuryPre, expectedAmount]

Min(a, b) == IF a < b THEN a ELSE b

\* the scan of findMatchingTransfer over the signatures returned newest first:
\* index of the first matching transaction, 0 when none matches
RECURSIVE ScanFrom(_, _, _)
ScanFrom(sigs, i, expectedAmount) ==
  IF i > Len(sigs) THEN 0
  ELSE IF TxMatches(sigs[i], expectedAmount) THEN i
  ELSE ScanFrom(sigs, i + 1, expectedAmount)

findMatchingTransfer(history, expectedAmount) ==
  LET sigs == SubSeq(history, 1, Min(Len(history), SEARCH_LIMIT))
      k == ScanFrom(sigs, 1, expectedAmount)
  IN IF k = 0 THEN NullNum ELSE sigs[k].signature

\* config.requiredPercent
requiredPercent == Ratio(RequiredNum, RequiredDen, 0)

\* balance / supply for a supply of whole tokens
percentOwned(supply, balance) == FDiv(balance, supply)

isQualified(supply, balance, required) == FLeq(required, percentOwned(supply, balance))

\* (variant: holding exactly the required share does not qualify)
verifyOwnershipStrict(supply, balance) ==
  IF supply = 0 THEN [error |-> TRUE, isQualified |-> FALSE, balance |-> balance]
  ELSE [error |-> FALSE,
        isQualified |-> FLess(requiredPercent, percentOwned(supply, Whole(balance))),
        balance |-> balance]

\* (variant: no check of the supply; x / 0 is Infinity, 0 / 0 is NaN)
verifyOwnershipUnchecked(supply, balance) ==
  [error |-> FALSE,
   isQualified |-> IF supply = 0 THEN balance > 0
                   ELSE isQualified(supply, Whole(balance), requiredPercent),
   balance |-> balance]

\* verifyOwnership on the two readings, whole tokens; "error" is the zero-supply
\* throw
verifyOwnership(supply, balance) ==
  IF supply = 0 THEN [error |-> TRUE, isQualified |-> FALSE, balance |-> balance]
  ELSE [error |-> FALSE,
        isQualified |-> isQualified(supply, Whole(balance), requiredPercent),
        balance |-> balance]

\* verifyOwnership on every pair of readings the node returns, computed once
Ownership ==
  [supply \in Supplies, balance \in Balances |-> verifyOwnership(supply, balance)]

----------------------------------------------------------------------------
(* Challenge issuer (utils/random.ts) *)

\* what Math.random() returns, as the double k / 2^bits: the multiples of
\* 2^-RandBits in [0, 1) and the values 1 - 2^-j for the finer j
RandomDraws ==
  {[k |-> k, bits |-> RandBits] : k \in 0..(2^RandBits - 1)}
  \cup {[k |-> 2^j - 1, bits |-> j] : j \in (RandBits + 1)..MaxRandBits}

\* Math.random() * (max - min) + min
Drawn(random) ==
  LET min == Amount(minTokenCode)
      max == Amount(maxTokenCode)
  IN FAdd(FScale(FSub(max, min), random.k, -random.bits), min)

\* (variant: the amount drawn is returned as it is)
getRandomVerificationAmountUnrounded(random) == Drawn(random)

\* Math.round(x * 1e9) / 1e9, with 1e9 = 5^9 * 2^9
getRandomVerificationAmount(random) == Amount(MathRound(FScale(Drawn(random), 5^9, 9)))

----------------------------------------------------------------------------
(* State *)

VARIABLES
  scope,       \* the inputs the environment draws from (fixed by Init)
  cfgGroupId,  \* config.groupId ("" when TELEGRAM_GROUP_ID is not set)
  db,          \* the users table
  out,         \* what the last step did outside the users table
  now,         \* Date.now(), minutes
  chain,       \* per wallet, its transactions on the ledger, newest first
  conf,        \* handleConfirm invocations in flight
  sweep,       \* runOwnershipSweep invocations in flight
  wl,          \* handleWhitelist invocation suspended on its approval
  jr,          \* handleChatJoinRequest invocation suspended on its approval
  admitted,    \* history: admitted by a confirm and not found below threshold since
  shortfall,   \* history: a confirm of the pending challenge found the holdings too low
  scan,        \* a findMatchingTransfer invocation followed call by call
  eval         \* an application of almostEqual or of the ownership evaluation

vars ==
  <<scope, cfgGroupId, db, out, now, chain, conf, sweep, wl, jr, admitted, shortfall, scan, eval>>

ConfirmIds == {"c1", "c2"}
SweepIds == {"s1", "s2"}

\* an idle invocation; while in flight, user is the row read at line 174
IdleConf == [pc |-> "idle", telegramId |-> NullStr,
             user |-> [walletAddress |-> NullStr, verificationCode |-> NullNum,
                       requestedGroupId |-> NullStr],
             transfer |-> NullNum, isQualified |-> FALSE, balance |-> NullNum]

\* while a run is in flight, users is the list loaded at line 429, i the loop
\* index and balance the reading that started a removal
IdleSweep == [pc |-> "idle", users |-> << >>, i |-> 0, balance |-> NullNum]

IdleHandler == [pc |-> "idle", user |-> NullStr, group |-> NullStr]

\* history: the transactions of the wallet, newest first; sigs: the signatures
\* listed; i: the loop index; fetched: the signatures getTransaction was called
\* for; result: the signature returned; reply: what handleConfirm answers
IdleScan == [pc |-> "idle", history |-> << >>, expectedAmount |-> NullNum, sigs |-> << >>,
             i |-> 0, fetched |-> << >>, result |-> NullNum, reply |-> NullStr]

IdleEval == [pc |-> "idle"]

\* logged: the rows appended to verification_events; ledger: the RPC methods
\* called; reply: the message sent to the identity, or the error line a sweep
\* logs or its "no verified users" line ("" when none); granted: the <<identity, group>> the step let in (a join
\* request approved, an invite link delivered); removed: the <<identity, group>>
\* the step kicked; thrown: the error of a ledger query the step caught ("rpc"
\* for a rejected request, "zero_supply")
Emit(logged, ledger, reply, granted, removed) ==
  [logged |-> logged, ledger |-> ledger, reply |-> reply, granted |-> granted,
   removed |-> removed, thrown |-> NullStr]
Quiet == Emit(<< >>, {}, NullStr, {}, {})

InitHandlers ==
  /\ cfgGroupId \in {NullStr, "g1"}
  /\ db = [u \in Users |-> EmptyRow]
  /\ out = Quiet
  /\ now = 0
  /\ chain = [w \in Wallets |-> << >>]
  /\ conf = [t \in ConfirmIds |-> IdleConf]
  /\ sweep = [s \in SweepIds |-> IdleSweep]
  /\ wl = IdleHandler
  /\ jr = IdleHandler
  /\ admitted = [u \in Users |-> FALSE]
  /\ shortfall = [u \in Users |-> FALSE]

InitState == InitHandlers /\ scan = IdleScan /\ eval = IdleEval

Init ==
  /\ scope = [users |-> {"u1"}, wallets |-> {"w1"}, codes |-> {2000}, groups |-> {"g1"},
              slots |-> {"c1"}, runs |-> {"s1"}]
  /\ InitState

\* (variant: every sender passes)
isAdminAnyone(sender) == TRUE

isAdmin(sender) == sender \in adminIds

\* the step writes store d, calls the ledger methods in ledger and sends reply
Commit(d, ledger, reply) == db' = d.users /\ out' = Emit(d.logged, ledger, reply, {}, {})

\* the same for a step that catches what a ledger query threw
CommitThrown(d, ledger, reply, thrown) ==
  db' = d.users /\ out' = [Emit(d.logged, ledger, reply, {}, {}) EXCEPT !.thrown = thrown]

\* the same for a step that resumes after a Telegram call changed who is in a group
CommitAccess(d, ledger, reply, granted, removed) ==
  db' = d.users /\ out' = Emit(d.logged, ledger, reply, granted, removed)

----------------------------------------------------------------------------
(* Environment: the clock and the ledger *)

Tick ==
  /\ \E d \in TickSteps : now + d <= MaxNow /\ now' = now + d
  /\ out' = Quiet
  /\ UNCHANGED <<scope, scan, eval, cfgGroupId, db, chain, conf, sweep, wl, jr, admitted, shortfall>>

ChainLen == Len(chain["w1"]) + Len(chain["w2"])

\* an SPL transfer of amount a from a wallet to the treasury
TransferTx(sig, a) ==
  [signature |-> sig, meta |-> TRUE, userPre |-> maxTokenCode, userPost |-> maxTokenCode - a,
   treasuryPre |-> NullNum, treasuryPost |-> a]

Transfer(w, a) ==
  /\ ChainLen < MaxHist
  /\ chain' = [chain EXCEPT ![w] = <<TransferTx(ChainLen + 1, a)>> \o @]
  /\ out' = Quiet
  /\ UNCHANGED <<scope, scan, eval, cfgGroupId, db, now, conf, sweep, wl, jr, admitted, shortfall>>

----------------------------------------------------------------------------
(* /start and /verify *)

handleStart(u) ==
  /\ Commit(upsertUser(Store(db), u), {}, "welcome")
  /\ UNCHANGED <<scope, scan, eval, cfgGroupId, now, chain, conf, sweep, wl, jr, admitted, shortfall>>

\* wallet = "" is /verify without an address: the handler stops after upsertUser
handleVerify(u, wallet, verificationAmount) ==
  LET d1 == upsertUser(Store(db), u)
      expiresAt == now + VERIFICATION_WINDOW_MINUTES
  IN /\ Commit(IF wallet = NullStr THEN d1
               ELSE saveVerificationRequest(d1, u, wallet, verificationAmount, expiresAt,
                                            cfgGroupId),
               {}, IF wallet = NullStr THEN "usage" ELSE "instructions")
     /\ shortfall' = IF wallet = NullStr THEN shortfall ELSE [shortfall EXCEPT ![u] = FALSE]
     /\ UNCHANGED <<scope, scan, eval, cfgGroupId, now, chain, conf, sweep, wl, jr, admitted>>

----------------------------------------------------------------------------
(* /confirm *)

FreeConf == {t \in scope.slots : conf[t].pc = "idle"}
\* the invocation slot a new /confirm takes
NewConf == IF "c1" \in FreeConf THEN "c1" ELSE "c2"

Confirmable(user) ==
  user.present /\ user.verificationCode # NullNum /\ user.walletAddress # NullStr

\* (variant: the expiry instant itself counts as expired)
ExpiredAtExpiry(user) ==
  user.verificationExpiresAt # NullNum /\ now >= user.verificationExpiresAt

Expired(user) ==
  user.verificationExpiresAt # NullNum /\ now > user.verificationExpiresAt

SignatureCalls == {"getSignaturesForAddress"}
ScanCalls == {"getTransaction"}
OwnershipCalls == {"getTokenSupply", "getTokenAccountsByOwner"}

\* nothing to confirm: the handler replies and returns
ConfirmRejected(u) ==
  /\ ~Confirmable(db[u])
  /\ Commit(Store(db), {}, "no_request")
  /\ UNCHANGED <<scope, scan, eval, cfgGroupId, now, chain, conf, sweep, wl, jr, admitted, shortfall>>

\* the challenge is past its expiry: cleared, the handler returns
ConfirmExpired(u) ==
  LET user == db[u]
  IN /\ Confirmable(user)
     /\ Expired(user)
     /\ Commit(clearVerification(Store(db), u), {}, "expired")
     /\ shortfall' = [shortfall EXCEPT ![u] = FALSE]
     /\ UNCHANGED <<scope, scan, eval, cfgGroupId, now, chain, conf, sweep, wl, jr, admitted>>

\* up to the first await: findMatchingTransfer is called
ConfirmBegin(u) ==
  LET user == db[u]
  IN /\ Confirmable(user)
     /\ ~Expired(user)
     /\ FreeConf # {}
     /\ conf' = [conf EXCEPT ![NewConf] =
                   [IdleConf EXCEPT !.pc = "find", !.telegramId = u,
                                    !.user = [walletAddress |-> user.walletAddress,
                                              verificationCode |-> user.verificationCode,
                                              requestedGroupId |-> user.requestedGroupId]]]
     /\ Commit(Store(db), SignatureCalls, NullStr)
     /\ UNCHANGED <<scope, scan, eval, cfgGroupId, now, chain, sweep, wl, jr, admitted, shortfall>>

\* (variant: the catch also clears the challenge)
ConfirmFindFailedClearing(t) ==
  /\ conf[t].pc = "find"
  /\ conf' = [conf EXCEPT ![t] = IdleConf]
  /\ CommitThrown(clearVerification(Store(db), conf[t].telegramId), {}, "failed", "rpc")
  /\ UNCHANGED <<scope, scan, eval, cfgGroupId, now, chain, sweep, wl, jr, admitted, shortfall>>

\* a ledger call of the scan fails: the catch ends the handler
ConfirmFindFailed(t) ==
  /\ conf[t].pc = "find"
  /\ conf' = [conf EXCEPT ![t] = IdleConf]
  /\ CommitThrown(Store(db), {}, "failed", "rpc")
  /\ UNCHANGED <<scope, scan, eval, cfgGroupId, now, chain, sweep, wl, jr, admitted, shortfall>>

\* the signatures return and are scanned, one getTransaction each; on a match
\* verifyOwnership is called
ConfirmFind(t) ==
  LET user == conf[t].user
      transfer == findMatchingTransfer(chain[user.walletAddress], user.verificationCode)
      scanned == IF chain[user.walletAddress] = << >> THEN {} ELSE ScanCalls
  IN /\ conf[t].pc = "find"
     /\ conf' = [conf EXCEPT ![t] = IF transfer = NullNum THEN IdleConf
                                    ELSE [@ EXCEPT !.pc = "own", !.transfer = transfer]]
     /\ Commit(Store(db), scanned \cup (IF transfer = NullNum THEN {} ELSE OwnershipCalls),
               IF transfer = NullNum THEN "no_match" ELSE NullStr)
     /\ UNCHANGED <<scope, scan, eval, cfgGroupId, now, chain, sweep, wl, jr, admitted, shortfall>>

\* a ledger read of verifyOwnership fails
ConfirmOwnFailed(t) ==
  /\ conf[t].pc = "own"
  /\ conf' = [conf EXCEPT ![t] = IdleConf]
  /\ CommitThrown(Store(db), {}, "failed", "rpc")
  /\ UNCHANGED <<scope, scan, eval, cfgGroupId, now, chain, sweep, wl, jr, admitted, shortfall>>

ConfirmGroup(t) ==
  IF conf[t].user.requestedGroupId # NullStr THEN conf[t].user.requestedGroupId ELSE cfgGroupId

\* verifyOwnership returns: zero supply throws, below threshold returns,
\* otherwise the row is marked verified and the admission starts
ConfirmOwn(t, supply, balance) ==
  LET u == conf[t].telegramId
      ownership == Ownership[supply, balance]
  IN /\ conf[t].pc = "own"
     /\ IF ownership.error \/ ~ownership.isQualified
        THEN /\ conf' = [conf EXCEPT ![t] = IdleConf]
             /\ IF ownership.error THEN CommitThrown(Store(db), {}, "failed", "zero_supply")
                ELSE Commit(Store(db), {}, "below_threshold")
             /\ shortfall' = IF ownership.error THEN shortfall
                              ELSE [shortfall EXCEPT ![u] = TRUE]
             /\ UNCHANGED admitted
        ELSE /\ Commit(clearVerification(markVerified(Store(db), u, ownership.balance, now), u),
                       {}, IF ConfirmGroup(t) = NullStr THEN "verified" ELSE NullStr)
             /\ admitted' = [admitted EXCEPT ![u] = TRUE]
             /\ shortfall' = [shortfall EXCEPT ![u] = FALSE]
             /\ conf' = [conf EXCEPT ![t] =
                           IF ConfirmGroup(t) = NullStr THEN IdleConf
                           ELSE [@ EXCEPT !.balance = ownership.balance,
                                          !.isQualified = ownership.isQualified,
                                          !.pc = IF conf[t].user.requestedGroupId # NullStr
                                                 THEN "approve" ELSE "invite"]]
     /\ UNCHANGED <<scope, scan, eval, cfgGroupId, now, chain, sweep, wl, jr>>

\* approveChatJoinRequest returns; a failure is only logged
ConfirmApprove(t, ok) ==
  LET u == conf[t].telegramId
  IN /\ conf[t].pc = "approve"
     /\ conf' = [conf EXCEPT ![t].pc = "invite"]
     /\ CommitAccess(Store(db), {}, NullStr, IF ok THEN {<<u, ConfirmGroup(t)>>} ELSE {}, {})
     /\ UNCHANGED <<scope, scan, eval, cfgGroupId, now, chain, sweep, wl, jr, admitted, shortfall>>

InviteOutcomes == {"sent", "send_failed", "create_failed"}

\* deliverInviteLink returns: "sent", "send_failed" (link created, message lost)
\* or "create_failed"; the finally block clears the requested group
ConfirmInvite(t, outcome) ==
  LET u == conf[t].telegramId
      d1 == IF outcome = "create_failed" THEN Store(db)
            ELSE recordInviteLink(Store(db), u, ConfirmGroup(t))
  IN /\ conf[t].pc = "invite"
     /\ CommitAccess(clearRequestedGroup(d1, u), {},
                     IF outcome = "sent" THEN "invite" ELSE "invite_failed",
                     IF outcome = "sent" THEN {<<u, ConfirmGroup(t)>>} ELSE {}, {})
     /\ conf' = [conf EXCEPT ![t] = IdleConf]
     /\ UNCHANGED <<scope, scan, eval, cfgGroupId, now, chain, sweep, wl, jr, admitted, shortfall>>

----------------------------------------------------------------------------
(* /whitelist, join requests, membership updates *)

\* a sender who is no admin is refused; otherwise, up to the first await: the
\* flag is set, the row is read, the approval is called
handleWhitelist(sender, targetId) ==
  LET d1 == setWhitelist(Store(db), targetId, TRUE)
      user == d1.users[targetId]
  IN /\ wl.pc = "idle"
     /\ IF ~isAdmin(sender)
        THEN Commit(Store(db), {}, "not_authorized") /\ UNCHANGED wl
        ELSE /\ Commit(d1, {}, IF user.requestedGroupId # NullStr THEN NullStr
                                ELSE "whitelisted")
             /\ wl' = IF user.requestedGroupId # NullStr
                      THEN [pc |-> "approve", user |-> targetId,
                            group |-> user.requestedGroupId]
                      ELSE IdleHandler
     /\ UNCHANGED <<scope, scan, eval, cfgGroupId, now, chain, conf, sweep, jr, admitted, shortfall>>

ApprovalOutcomes == {"done", "message_failed", "approve_failed"}

\* approveChatJoinRequest and the message to the user return; the requested
\* group is cleared only when both succeeded
WhitelistApprove(outcome) ==
  /\ wl.pc = "approve"
  /\ CommitAccess(IF outcome = "done" THEN clearRequestedGroup(Store(db), wl.user)
                  ELSE Store(db),
                  {}, IF outcome = "done" THEN "approved" ELSE "whitelisted",
                  IF outcome = "approve_failed" THEN {} ELSE {<<wl.user, wl.group>>}, {})
  /\ wl' = IdleHandler
  /\ UNCHANGED <<scope, scan, eval, cfgGroupId, now, chain, conf, sweep, jr, admitted, shortfall>>

\* (variant: every join request is approved)
JoinApprovesAnyone(user) == user.present

\* the test that lets a join request through
JoinApproves(user) == user.present /\ user.isWhitelisted

handleChatJoinRequest(u, g) ==
  LET d1 == upsertUser(setRequestedGroup(Store(db), u, g), u)
      user == d1.users[u]
  IN /\ JoinApproves(user) => jr.pc = "idle"
     /\ Commit(d1, {}, IF JoinApproves(user) THEN NullStr ELSE "must_verify")
     /\ jr' = IF JoinApproves(user) THEN [pc |-> "approve", user |-> u, group |-> g] ELSE jr
     /\ UNCHANGED <<scope, scan, eval, cfgGroupId, now, chain, conf, sweep, wl, admitted, shortfall>>

JoinApprove(outcome) ==
  /\ jr.pc = "approve"
  /\ CommitAccess(IF outcome = "done" THEN clearRequestedGroup(Store(db), jr.user)
                  ELSE Store(db),
                  {}, IF outcome = "done" THEN "approved" ELSE NullStr,
                  IF outcome = "approve_failed" THEN {} ELSE {<<jr.user, jr.group>>}, {})
  /\ jr' = IdleHandler
  /\ UNCHANGED <<scope, scan, eval, cfgGroupId, now, chain, conf, sweep, wl, admitted, shortfall>>

\* a chat_member update with status left or kicked
handleChatMemberUpdate(u) ==
  /\ db[u].present
  /\ Commit(updateBalance(Store(db), u, 0, now), {}, NullStr)
  /\ UNCHANGED <<scope, scan, eval, cfgGroupId, now, chain, conf, sweep, wl, jr, admitted, shortfall>>

----------------------------------------------------------------------------
(* Ownership sweep *)

Skipped(user) == user.isWhitelisted \/ user.walletAddress = NullStr

\* the for loop's synchronous skips: first index from i on that reaches verifyOwnership
RECURSIVE NextIdx(_, _)
NextIdx(users, i) ==
  IF i > Len(users) THEN i
  ELSE IF Skipped(users[i]) THEN NextIdx(users, i + 1)
  ELSE i

\* the loop moves to index j: verifyOwnership is called for users[j], or the run ends
SweepAt(sw, j) ==
  IF j > Len(sw.users) THEN IdleSweep
  ELSE [sw EXCEPT !.pc = "eval", !.i = j, !.balance = NullNum]

SweepNext(sw) == SweepAt(sw, NextIdx(sw.users, sw.i + 1))

SweepCalls(sw) == IF sw.pc = "eval" THEN OwnershipCalls ELSE {}

SweepUser(s) == sweep[s].users[sweep[s].i].telegramId

FreeRuns == {r \in scope.runs : sweep[r].pc = "idle"}
\* the invocation slot a timer tick takes
NewRun == IF "s1" \in FreeRuns THEN "s1" ELSE "s2"

\* the timer fires: setInterval calls the function whether or not an earlier
\* run has returned
runOwnershipSweep(s) ==
  LET users == getVerifiedUsers(Store(db))
      sw == SweepAt([IdleSweep EXCEPT !.users = users], NextIdx(users, 1))
  IN /\ s \in FreeRuns /\ s = NewRun
     /\ sweep' = [sweep EXCEPT ![s] = sw]
     /\ Commit(Store(db), SweepCalls(sw), IF Len(users) = 0 THEN "sweep_empty" ELSE NullStr)
     /\ UNCHANGED <<scope, scan, eval, cfgGroupId, now, chain, conf, wl, jr, admitted, shortfall>>

\* (variant: a failed evaluation is tried again)
SweepEvalFailedRetries(s) ==
  /\ sweep[s].pc = "eval"
  /\ sweep' = sweep
  /\ CommitThrown(Store(db), OwnershipCalls, "sweep_error", "rpc")
  /\ UNCHANGED <<scope, scan, eval, cfgGroupId, now, chain, conf, wl, jr, admitted, shortfall>>

\* (variant: the failure ends the run)
SweepEvalFailedEndsRun(s) ==
  /\ sweep[s].pc = "eval"
  /\ sweep' = [sweep EXCEPT ![s] = IdleSweep]
  /\ CommitThrown(Store(db), {}, "sweep_error", "rpc")
  /\ UNCHANGED <<scope, scan, eval, cfgGroupId, now, chain, conf, wl, jr, admitted, shortfall>>

\* verifyOwnership throws on a failed ledger read: caught, next user
SweepEvalFailed(s) ==
  LET sw == SweepNext(sweep[s])
  IN /\ sweep[s].pc = "eval"
     /\ sweep' = [sweep EXCEPT ![s] = sw]
     /\ CommitThrown(Store(db), SweepCalls(sw), "sweep_error", "rpc")
     /\ UNCHANGED <<scope, scan, eval, cfgGroupId, now, chain, conf, wl, jr, admitted, shortfall>>

\* verifyOwnership returns (zero supply throws): the balance is stored; below
\* the threshold the removal starts
SweepEval(s, supply, balance) ==
  LET u == SweepUser(s)
      ownership == Ownership[supply, balance]
      sw == IF ownership.error \/ ownership.isQualified THEN SweepNext(sweep[s])
            ELSE [sweep[s] EXCEPT !.pc = IF cfgGroupId # NullStr THEN "kick" ELSE "message",
                                  !.balance = ownership.balance]
  IN /\ sweep[s].pc = "eval"
     /\ sweep' = [sweep EXCEPT ![s] = sw]
     /\ IF ownership.error
        THEN CommitThrown(Store(db), SweepCalls(sw), "sweep_error", "zero_supply")
        ELSE Commit(updateBalance(Store(db), u, ownership.balance, now), SweepCalls(sw), NullStr)
     /\ admitted' = IF ownership.error \/ ownership.isQualified THEN admitted
                    ELSE [admitted EXCEPT ![u] = FALSE]
     /\ UNCHANGED <<scope, scan, eval, cfgGroupId, now, chain, conf, wl, jr, shortfall>>

\* kickChatMember returns
SweepKick(s, ok) ==
  LET u == SweepUser(s)
      sw == IF ok THEN [sweep[s] EXCEPT !.pc = "unban"] ELSE SweepNext(sweep[s])
  IN /\ sweep[s].pc = "kick"
     /\ sweep' = [sweep EXCEPT ![s] = sw]
     /\ CommitAccess(Store(db), SweepCalls(sw), IF ok THEN NullStr ELSE "sweep_error",
                     {}, IF ok THEN {<<u, cfgGroupId>>} ELSE {})
     /\ UNCHANGED <<scope, scan, eval, cfgGroupId, now, chain, conf, wl, jr, admitted, shortfall>>

\* unbanChatMember returns
SweepUnban(s, ok) ==
  LET sw == IF ok THEN [sweep[s] EXCEPT !.pc = "message"] ELSE SweepNext(sweep[s])
  IN /\ sweep[s].pc = "unban"
     /\ sweep' = [sweep EXCEPT ![s] = sw]
     /\ Commit(Store(db), SweepCalls(sw), IF ok THEN NullStr ELSE "sweep_error")
     /\ UNCHANGED <<scope, scan, eval, cfgGroupId, now, chain, conf, wl, jr, admitted, shortfall>>

\* the removal message to the user returns; then the event is logged and the
\* admins are notified (notifyAdmins swallows its own failures)
SweepMessage(s, ok) ==
  LET u == SweepUser(s)
      sw == SweepNext(sweep[s])
  IN /\ sweep[s].pc = "message"
     /\ sweep' = [sweep EXCEPT ![s] = sw]
     /\ Commit(IF ok THEN logEvent(Store(db), u, "ownership_revoked",
                                   [NoPayload EXCEPT !.amount = sweep[s].balance])
               ELSE Store(db), SweepCalls(sw), IF ok THEN "removed" ELSE "sweep_error")
     /\ UNCHANGED <<scope, scan, eval, cfgGroupId, now, chain, conf, wl, jr, admitted, shortfall>>

----------------------------------------------------------------------------
(* Specification *)

Next ==
  \/ Tick
  \/ \E w \in scope.wallets, a \in scope.codes : Transfer(w, a)
  \/ \E u \in scope.users : handleStart(u)
  \/ \E u \in scope.users, w \in scope.wallets \cup {NullStr}, a \in scope.codes :
        handleVerify(u, w, a)
  \/ \E u \in scope.users : ConfirmRejected(u)
  \/ \E u \in scope.users : ConfirmExpired(u)
  \/ \E u \in scope.users : ConfirmBegin(u)
  \/ \E t \in ConfirmIds : ConfirmFindFailed(t)
  \/ \E t \in ConfirmIds : ConfirmFind(t)
  \/ \E t \in ConfirmIds : ConfirmOwnFailed(t)
  \/ \E t \in ConfirmIds, supply \in Supplies, balance \in Balances : ConfirmOwn(t, supply, balance)
  \/ \E t \in ConfirmIds, ok \in BOOLEAN : ConfirmApprove(t, ok)
  \/ \E t \in ConfirmIds, outcome \in InviteOutcomes : ConfirmInvite(t, outcome)
  \/ \E sender \in Senders, targetId \in scope.users : handleWhitelist(sender, targetId)
  \/ \E outcome \in ApprovalOutcomes : WhitelistApprove(outcome)
  \/ \E u \in scope.users, g \in scope.groups : handleChatJoinRequest(u, g)
  \/ \E outcome \in ApprovalOutcomes : JoinApprove(outcome)
  \/ \E u \in scope.users : handleChatMemberUpdate(u)
  \/ \E s \in SweepIds : runOwnershipSweep(s)
  \/ \E s \in SweepIds : SweepEvalFailed(s)
  \/ \E s \in SweepIds, supply \in Supplies, balance \in Balances : SweepEval(s, supply, balance)
  \/ \E s \in SweepIds, ok \in BOOLEAN : SweepKick(s, ok)
  \/ \E s \in SweepIds, ok \in BOOLEAN : SweepUnban(s, ok)
  \/ \E s \in SweepIds, ok \in BOOLEAN : SweepMessage(s, ok)

Spec == Init /\ [][Next]_vars

----------------------------------------------------------------------------
(* The confirmation flow alone, over two wallets and two challenge amounts *)

InitConfirm ==
  /\ scope = [users |-> {"u1"}, wallets |-> Wallets, codes |-> CodeChoices,
              groups |-> {"g1"}, slots |-> {"c1"}, runs |-> {"s1"}]
  /\ InitState

NextConfirm ==
  \/ Tick
  \/ \E w \in scope.wallets, a \in scope.codes : Transfer(w, a)
  \/ \E u \in scope.users : handleStart(u)
  \/ \E u \in scope.users, w \in scope.wallets \cup {NullStr}, a \in scope.codes :
        handleVerify(u, w, a)
  \/ \E u \in scope.users : ConfirmRejected(u)
  \/ \E u \in scope.users : ConfirmExpired(u)
  \/ \E u \in scope.users : ConfirmBegin(u)
  \/ \E t \in ConfirmIds : ConfirmFindFailed(t)
  \/ \E t \in ConfirmIds : ConfirmFind(t)
  \/ \E t \in ConfirmIds : ConfirmOwnFailed(t)
  \/ \E t \in ConfirmIds, supply \in Supplies, balance \in Balances : ConfirmOwn(t, supply, balance)
  \/ \E t \in ConfirmIds, ok \in BOOLEAN : ConfirmApprove(t, ok)
  \/ \E t \in ConfirmIds, outcome \in InviteOutcomes : ConfirmInvite(t, outcome)

SpecConfirm == InitConfirm /\ [][NextConfirm]_vars

----------------------------------------------------------------------------
(* The sweep over two identities that an earlier /verify, transfer and      *)
(* /confirm admitted, with the commands that can arrive while it runs       *)

\* the store after identity u went through saveVerificationRequest, a
\* qualifying /confirm and the delivery of its invite link, all at time 0
Admit(d, u, wallet, g) ==
  clearRequestedGroup(
    recordInviteLink(
      clearVerification(
        markVerified(
          saveVerificationRequest(upsertUser(d, u), u, wallet, 2000,
                                  VERIFICATION_WINDOW_MINUTES, g),
          u, 10, 0),
        u),
      u, g),
    u)

InitSweep ==
  /\ scope = [users |-> Users, wallets |-> {"w1"}, codes |-> {2000}, groups |-> {"g1"},
              slots |-> {}, runs |-> {"s1"}]
  /\ cfgGroupId \in {NullStr, "g1"}
  /\ db = Admit(Admit(Store([u \in Users |-> EmptyRow]), "u1", "w1", cfgGroupId),
                "u2", "w2", cfgGroupId).users
  /\ out = Quiet
  /\ now = 0
  /\ chain = [w \in Wallets |-> <<TransferTx(IF w = "w1" THEN 1 ELSE 2, 2000)>>]
  /\ conf = [t \in ConfirmIds |-> IdleConf]
  /\ sweep = [s \in SweepIds |-> IdleSweep]
  /\ wl = IdleHandler
  /\ jr = IdleHandler
  /\ admitted = [u \in Users |-> TRUE]
  /\ shortfall = [u \in Users |-> FALSE]
  /\ scan = IdleScan
  /\ eval = IdleEval

NextSweep ==
  \/ \E u \in scope.users, w \in scope.wallets, a \in scope.codes : handleVerify(u, w, a)
  \/ \E sender \in Senders, targetId \in scope.users : handleWhitelist(sender, targetId)
  \/ \E s \in SweepIds : runOwnershipSweep(s)
  \/ \E s \in SweepIds : SweepEvalFailed(s)
  \/ \E s \in SweepIds, supply \in Supplies, balance \in Balances : SweepEval(s, supply, balance)
  \/ \E s \in SweepIds, ok \in BOOLEAN : SweepKick(s, ok)
  \/ \E s \in SweepIds, ok \in BOOLEAN : SweepUnban(s, ok)
  \/ \E s \in SweepIds, ok \in BOOLEAN : SweepMessage(s, ok)

SpecSweep == InitSweep /\ [][NextSweep]_vars

\* the run s resumes after the remote call it awaits has returned or failed
SweepStep(s) ==
  \/ SweepEvalFailed(s)
  \/ \E supply \in Supplies, balance \in Balances : SweepEval(s, supply, balance)
  \/ \E ok \in BOOLEAN : SweepKick(s, ok)
  \/ \E ok \in BOOLEAN : SweepUnban(s, ok)
  \/ \E ok \in BOOLEAN : SweepMessage(s, ok)

\* the same sweep when every remote call of a run returns or fails
SpecSweepFair == SpecSweep /\ \A s \in SweepIds : WF_vars(SweepStep(s))

----------------------------------------------------------------------------
(* The timer and the sweep alone: two admitted identities, and a tick that   *)
(* can fire while the run of the tick before it is still awaiting a call     *)

InitOverlap ==
  /\ scope = [users |-> Users, wallets |-> {"w1"}, codes |-> {2000}, groups |-> {"g1"},
              slots |-> {}, runs |-> SweepIds]
  /\ cfgGroupId \in {NullStr, "g1"}
  /\ db = Admit(Admit(Store([u \in Users |-> EmptyRow]), "u1", "w1", cfgGroupId),
                "u2", "w2", cfgGroupId).users
  /\ out = Quiet
  /\ now = 0
  /\ chain = [w \in Wallets |-> <<TransferTx(IF w = "w1" THEN 1 ELSE 2, 2000)>>]
  /\ conf = [t \in ConfirmIds |-> IdleConf]
  /\ sweep = [s \in SweepIds |-> IdleSweep]
  /\ wl = IdleHandler
  /\ jr = IdleHandler
  /\ admitted = [u \in Users |-> TRUE]
  /\ shortfall = [u \in Users |-> FALSE]
  /\ scan = IdleScan
  /\ eval = IdleEval

NextOverlap ==
  \/ \E s \in SweepIds : runOwnershipSweep(s)
  \/ \E s \in SweepIds : SweepEvalFailed(s)
  \/ \E s \in SweepIds, supply \in Supplies, balance \in Balances : SweepEval(s, supply, balance)
  \/ \E s \in SweepIds, ok \in BOOLEAN : SweepKick(s, ok)
  \/ \E s \in SweepIds, ok \in BOOLEAN : SweepUnban(s, ok)
  \/ \E s \in SweepIds, ok \in BOOLEAN : SweepMessage(s, ok)

SpecOverlap == InitOverlap /\ [][NextOverlap]_vars

----------------------------------------------------------------------------
(* The evaluations: one identity with a pending challenge and its transfer on *)
(* the ledger, one admitted identity, /confirm and the sweep                  *)

InitEvaluate ==
  /\ scope = [users |-> Users, wallets |-> {"w1"}, codes |-> {2000}, groups |-> {"g1"},
              slots |-> {"c1"}, runs |-> {"s1"}]
  /\ cfgGroupId \in {NullStr, "g1"}
  /\ \E g \in {NullStr, "g1"} :
       db = saveVerificationRequest(
              upsertUser(Admit(Store([u \in Users |-> EmptyRow]), "u2", "w2", cfgGroupId), "u1"),
              "u1", "w1", 2000, VERIFICATION_WINDOW_MINUTES, g).users
  /\ out = Quiet
  /\ now = 0
  /\ chain = [w \in Wallets |-> <<TransferTx(IF w = "w1" THEN 1 ELSE 2, 2000)>>]
  /\ conf = [t \in ConfirmIds |-> IdleConf]
  /\ sweep = [s \in SweepIds |-> IdleSweep]
  /\ wl = IdleHandler
  /\ jr = IdleHandler
  /\ admitted = [u \in Users |-> u = "u2"]
  /\ shortfall = [u \in Users |-> FALSE]
  /\ scan = IdleScan
  /\ eval = IdleEval

NextEvaluate ==
  \/ \E u \in scope.users : ConfirmBegin(u)
  \/ \E t \in ConfirmIds : ConfirmFindFailed(t)
  \/ \E t \in ConfirmIds : ConfirmFind(t)
  \/ \E t \in ConfirmIds : ConfirmOwnFailed(t)
  \/ \E t \in ConfirmIds, supply \in Supplies, balance \in Balances : ConfirmOwn(t, supply, balance)
  \/ \E t \in ConfirmIds, ok \in BOOLEAN : ConfirmApprove(t, ok)
  \/ \E t \in ConfirmIds, outcome \in InviteOutcomes : ConfirmInvite(t, outcome)
  \/ \E s \in SweepIds : runOwnershipSweep(s)
  \/ \E s \in SweepIds : SweepEvalFailed(s)
  \/ \E s \in SweepIds, supply \in Supplies, balance \in Balances : SweepEval(s, supply, balance)
  \/ \E s \in SweepIds, ok \in BOOLEAN : SweepKick(s, ok)
  \/ \E s \in SweepIds, ok \in BOOLEAN : SweepUnban(s, ok)
  \/ \E s \in SweepIds, ok \in BOOLEAN : SweepMessage(s, ok)

SpecEvaluate == InitEvaluate /\ [][NextEvaluate]_vars

----------------------------------------------------------------------------
(* The whitelist: join requests and /whitelist from admins and from others *)

InitWhitelist ==
  /\ scope = [users |-> Users, wallets |-> {}, codes |-> {}, groups |-> Groups, slots |-> {}, runs |-> {"s1"}]
  /\ InitState

NextWhitelist ==
  \/ \E u \in scope.users : handleStart(u)
  \/ \E sender \in Senders, targetId \in scope.users : handleWhitelist(sender, targetId)
  \/ \E outcome \in ApprovalOutcomes : WhitelistApprove(outcome)
  \/ \E u \in scope.users, g \in scope.groups : handleChatJoinRequest(u, g)
  \/ \E outcome \in ApprovalOutcomes : JoinApprove(outcome)

SpecWhitelist == InitWhitelist /\ [][NextWhitelist]_vars

----------------------------------------------------------------------------
(* findMatchingTransfer call by call: the signatures are listed, then one      *)
(* getTransaction per signature, newest first, until one matches               *)

\* the holder sends amount a to an account that is not the treasury
ToOther(sig, a) ==
  [signature |-> sig, meta |-> TRUE, userPre |-> maxTokenCode, userPost |-> maxTokenCode - a,
   treasuryPre |-> 0, treasuryPost |-> 0]

\* the treasury receives amount a from an account that is not the holder's
FromOther(sig, a) ==
  [signature |-> sig, meta |-> TRUE, userPre |-> maxTokenCode, userPost |-> maxTokenCode,
   treasuryPre |-> NullNum, treasuryPost |-> a]

\* the holder sends the whole balance a to the treasury and the token account
\* is closed: no post balance of the holder
Closing(sig, a) ==
  [signature |-> sig, meta |-> TRUE, userPre |-> a, userPost |-> NullNum,
   treasuryPre |-> NullNum, treasuryPost |-> a]

\* the holder's token account is created by the transaction and left empty,
\* the treasury receives amount a: no pre balance of the holder
NoHolderPre(sig, a) ==
  [signature |-> sig, meta |-> TRUE, userPre |-> NullNum, userPost |-> 0,
   treasuryPre |-> NullNum, treasuryPost |-> a]

\* the holder sends amount a and the treasury takes no part: no balance of the
\* treasury
NoTreasuryPost(sig, a) ==
  [signature |-> sig, meta |-> TRUE, userPre |-> maxTokenCode, userPost |-> maxTokenCode - a,
   treasuryPre |-> NullNum, treasuryPost |-> NullNum]

\* a transaction the node returns without meta (or null)
NoMeta(sig) ==
  [signature |-> sig, meta |-> FALSE, userPre |-> NullNum, userPost |-> NullNum,
   treasuryPre |-> NullNum, treasuryPost |-> NullNum]

TxShapes(sig) ==
  {TransferTx(sig, a) : a \in TransferAmounts} \cup {ToOther(sig, a) : a \in TransferAmounts}
  \cup {FromOther(sig, a) : a \in TransferAmounts} \cup {Closing(sig, a) : a \in TransferAmounts}
  \cup {NoHolderPre(sig, a) : a \in CodeChoices} \cup {NoTreasuryPost(sig, a) : a \in CodeChoices}
  \cup {NoMeta(sig)}

\* the histories of n transactions, newest first, signatures numbered from the
\* oldest
RECURSIVE Histories(_)
Histories(n) ==
  IF n = 0 THEN {<< >>}
  ELSE {<<tx>> \o h : tx \in TxShapes(n), h \in Histories(n - 1)}

InitMatcher ==
  /\ scope = [users |-> {}, wallets |-> {}, codes |-> CodeChoices, groups |-> {}, slots |-> {}, runs |-> {"s1"}]
  /\ cfgGroupId = NullStr
  /\ InitHandlers
  /\ eval = IdleEval
  /\ \E n \in 0..MaxScan : \E h \in Histories(n) : \E a \in scope.codes :
       scan = [IdleScan EXCEPT !.pc = "list", !.history = h, !.expectedAmount = a]

\* the loop head: past the last signature the function returns null
ScanAt(sc, j) ==
  IF j > Len(sc.sigs) THEN [sc EXCEPT !.pc = "done", !.i = j] ELSE [sc EXCEPT !.pc = "fetch", !.i = j]

\* (variant: a failed call is skipped)
ScanSkips(sc) == ScanAt(sc, sc.i + 1)

\* a rejected rpcRequest leaves findMatchingTransfer as a rejection
ScanThrows(sc) == [sc EXCEPT !.pc = "failed"]

\* (variant: the loop goes on after a match and returns the oldest one)
ExaminedKeepsOn(sc, tx) ==
  IF TxMatches(tx, sc.expectedAmount)
  THEN [ScanAt(sc, sc.i + 1) EXCEPT !.result = tx.signature]
  ELSE ScanAt(sc, sc.i + 1)

\* the loop body on the transaction returned for sigs[i]
Examined(sc, tx) ==
  IF TxMatches(tx, sc.expectedAmount)
  THEN [sc EXCEPT !.pc = "done", !.result = tx.signature]
  ELSE ScanAt(sc, sc.i + 1)

ListOutcomes == {"listed", "not_array", "failed"}

\* getSignaturesForAddress returns
ScanList(outcome) ==
  /\ scan.pc = "list"
  /\ scan' = IF outcome = "failed" THEN ScanThrows(scan)
             ELSE IF outcome = "not_array" THEN [scan EXCEPT !.pc = "done"]
             ELSE ScanAt([scan EXCEPT !.sigs = SubSeq(scan.history, 1,
                                                      Min(Len(scan.history), SEARCH_LIMIT))], 1)
  /\ UNCHANGED <<scope, cfgGroupId, db, out, now, chain, conf, sweep, wl, jr, admitted,
                 shortfall, eval>>

\* getTransaction for sigs[i] returns
ScanFetch(ok) ==
  LET called == [scan EXCEPT !.fetched = Append(@, scan.sigs[scan.i].signature)]
  IN /\ scan.pc = "fetch"
     /\ scan' = IF ok THEN Examined(called, scan.sigs[scan.i]) ELSE ScanThrows(called)
     /\ UNCHANGED <<scope, cfgGroupId, db, out, now, chain, conf, sweep, wl, jr, admitted,
                    shortfall, eval>>

\* handleConfirm resumes: a rejection is caught, null is "no transfer found"
ScanReply ==
  /\ scan.pc \in {"done", "failed"}
  /\ scan' = [scan EXCEPT !.pc = "returned",
                          !.reply = IF scan.pc = "failed" THEN "failed"
                                    ELSE IF scan.result = NullNum THEN "no_match"
                                    ELSE "found"]
  /\ UNCHANGED <<scope, cfgGroupId, db, out, now, chain, conf, sweep, wl, jr, admitted,
                 shortfall, eval>>

NextMatcher ==
  \/ \E outcome \in ListOutcomes : ScanList(outcome)
  \/ \E ok \in BOOLEAN : ScanFetch(ok)
  \/ ScanReply

SpecMatcher == InitMatcher /\ [][NextMatcher]_vars

----------------------------------------------------------------------------
(* almostEqual applied to two amounts *)

\* the amounts compared: multiples of half the tolerance, as the numbers their
\* decimal literals parse to
EvalAmounts == {k * (TOLERANCE \div 2) : k \in 0..MaxUnits}

InitAlmostEqual ==
  /\ scope = [users |-> {}, wallets |-> {}, codes |-> {}, groups |-> {}, slots |-> {}, runs |-> {"s1"}]
  /\ cfgGroupId = NullStr
  /\ InitHandlers
  /\ scan = IdleScan
  /\ \E a \in EvalAmounts, b \in EvalAmounts :
       eval = [pc |-> "call", a |-> a, b |-> b, result |-> FALSE]

ApplyAlmostEqual ==
  /\ eval.pc = "call"
  /\ eval' = [eval EXCEPT !.pc = "done", !.result = almostEqual(Amount(eval.a), Amount(eval.b))]
  /\ UNCHANGED <<scope, cfgGroupId, db, out, now, chain, conf, sweep, wl, jr, admitted,
                 shortfall, scan>>

NextAlmostEqual == ApplyAlmostEqual

SpecAlmostEqual == InitAlmostEqual /\ [][NextAlmostEqual]_vars

----------------------------------------------------------------------------
(* The ownership evaluation applied to a supply and a balance *)

\* balances are drawn in thousandths of a token
PerToken == 1000

InitOwnership ==
  /\ scope = [users |-> {}, wallets |-> {}, codes |-> {}, groups |-> {}, slots |-> {}, runs |-> {"s1"}]
  /\ cfgGroupId = NullStr
  /\ InitHandlers
  /\ scan = IdleScan
  /\ \E supply \in 1..MaxSupply, balance \in 0..(MaxSupply + 1) :
       eval = [pc |-> "call", supply |-> supply, balance |-> balance,
               percentOwned |-> Whole(0), isQualified |-> FALSE]

ApplyOwnership ==
  LET balance == Ratio(eval.balance, PerToken, 0)
  IN /\ eval.pc = "call"
     /\ eval' = [eval EXCEPT !.pc = "done",
                             !.percentOwned = percentOwned(eval.supply, balance),
                             !.isQualified = isQualified(eval.supply, balance, requiredPercent)]
     /\ UNCHANGED <<scope, cfgGroupId, db, out, now, chain, conf, sweep, wl, jr, admitted,
                    shortfall, scan>>

NextOwnership == ApplyOwnership

SpecOwnership == InitOwnership /\ [][NextOwnership]_vars

----------------------------------------------------------------------------
(* The issuer applied to a draw of Math.random() *)

InitIssuer ==
  /\ scope = [users |-> {}, wallets |-> {}, codes |-> {}, groups |-> {}, slots |-> {}, runs |-> {"s1"}]
  /\ cfgGroupId = NullStr
  /\ InitHandlers
  /\ scan = IdleScan
  /\ \E random \in RandomDraws : eval = [pc |-> "call", random |-> random, amount |-> Amount(0)]

ApplyIssuer ==
  /\ eval.pc = "call"
  /\ eval' = [eval EXCEPT !.pc = "done", !.amount = getRandomVerificationAmount(eval.random)]
  /\ UNCHANGED <<scope, cfgGroupId, db, out, now, chain, conf, sweep, wl, jr, admitted,
                 shortfall, scan>>

NextIssuer == ApplyIssuer

SpecIssuer == InitIssuer /\ [][NextIssuer]_vars

----------------------------------------------------------------------------
(* verifyOwnership read by read: getTokenSupply and getTokenBalance are both   *)
(* started, each settles in its own time, Promise.all joins them               *)

\* the reply of a read whose rpcRequest threw
RpcFailed == -2

ReadSupplies == {0, 5000, 10000, 20000}
ReadBalances == {0, 5, 10, 20}

\* supplyReply, balanceReply: what the node answers to each read; supplyDone,
\* balanceDone: whether the read has settled; first: the read that settled
\* first; thrown, isQualified, balance: what verifyOwnership threw or returned
InitJoin ==
  /\ scope = [users |-> {}, wallets |-> {}, codes |-> {}, groups |-> {}, slots |-> {},
              runs |-> {}]
  /\ cfgGroupId = NullStr
  /\ InitHandlers
  /\ scan = IdleScan
  /\ \E supply \in ReadSupplies \cup {RpcFailed}, balance \in ReadBalances \cup {RpcFailed} :
       eval = [pc |-> "await", supplyReply |-> supply, balanceReply |-> balance,
               supplyDone |-> FALSE, balanceDone |-> FALSE, first |-> NullStr,
               thrown |-> NullStr, isQualified |-> FALSE, balance |-> NullNum]

\* (variant: a failed balance read counts as a balance of zero)
JoinedBalanceOptional(ev) ==
  IF ev.pc # "await" THEN ev
  ELSE IF ev.supplyDone /\ ev.supplyReply = RpcFailed
  THEN [ev EXCEPT !.pc = "failed", !.thrown = "rpc"]
  ELSE IF ev.supplyDone /\ ev.balanceDone
  THEN LET balance == IF ev.balanceReply = RpcFailed THEN 0 ELSE ev.balanceReply
           ownership == verifyOwnership(ev.supplyReply, balance)
       IN IF ownership.error THEN [ev EXCEPT !.pc = "failed", !.thrown = "zero_supply"]
          ELSE [ev EXCEPT !.pc = "done", !.isQualified = ownership.isQualified,
                          !.balance = ownership.balance]
  ELSE ev

\* Promise.all once a read has settled: the first rejection rejects it, and
\* what settles afterwards is ignored; with both reads fulfilled the statements
\* after the await run
Joined(ev) ==
  IF ev.pc # "await" THEN ev
  ELSE IF \/ ev.supplyDone /\ ev.supplyReply = RpcFailed
          \/ ev.balanceDone /\ ev.balanceReply = RpcFailed
  THEN [ev EXCEPT !.pc = "failed", !.thrown = "rpc"]
  ELSE IF ev.supplyDone /\ ev.balanceDone
  THEN LET ownership == verifyOwnership(ev.supplyReply, ev.balanceReply)
       IN IF ownership.error THEN [ev EXCEPT !.pc = "failed", !.thrown = "zero_supply"]
          ELSE [ev EXCEPT !.pc = "done", !.isQualified = ownership.isQualified,
                          !.balance = ownership.balance]
  ELSE ev

\* getTokenSupply settles
SupplySettles ==
  /\ ~eval.supplyDone
  /\ eval' = Joined([eval EXCEPT !.supplyDone = TRUE,
                                 !.first = IF eval.balanceDone THEN @ ELSE "supply"])
  /\ UNCHANGED <<scope, cfgGroupId, db, out, now, chain, conf, sweep, wl, jr, admitted,
                 shortfall, scan>>

\* getTokenBalance settles
BalanceSettles ==
  /\ ~eval.balanceDone
  /\ eval' = Joined([eval EXCEPT !.balanceDone = TRUE,
                                 !.first = IF eval.supplyDone THEN @ ELSE "balance"])
  /\ UNCHANGED <<scope, cfgGroupId, db, out, now, chain, conf, sweep, wl, jr, admitted,
                 shortfall, scan>>

NextJoin == SupplySettles \/ BalanceSettles

SpecJoin == InitJoin /\ [][NextJoin]_vars

----------------------------------------------------------------------------
(* A wallet whose history already holds a transfer to the treasury when its  *)
(* holder first asks for a challenge: /verify and /confirm, no new transfer  *)

InitReplay ==
  /\ scope = [users |-> {"u1"}, wallets |-> {"w1"}, codes |-> CodeChoices, groups |-> {"g1"},
              slots |-> {"c1"}, runs |-> {"s1"}]
  /\ cfgGroupId \in {NullStr, "g1"}
  /\ db = [u \in Users |-> EmptyRow]
  /\ out = Quiet
  /\ now = 0
  /\ \E a \in TransferAmounts :
       chain = [w \in Wallets |-> IF w = "w1" THEN <<TransferTx(1, a)>> ELSE << >>]
  /\ conf = [t \in ConfirmIds |-> IdleConf]
  /\ sweep = [s \in SweepIds |-> IdleSweep]
  /\ wl = IdleHandler
  /\ jr = IdleHandler
  /\ admitted = [u \in Users |-> FALSE]
  /\ shortfall = [u \in Users |-> FALSE]
  /\ scan = IdleScan
  /\ eval = IdleEval

NextReplay ==
  \/ Tick
  \/ \E u \in scope.users, w \in scope.wallets, a \in scope.codes : handleVerify(u, w, a)
  \/ \E u \in scope.users : ConfirmRejected(u)
  \/ \E u \in scope.users : ConfirmExpired(u)
  \/ \E u \in scope.users : ConfirmBegin(u)
  \/ \E t \in ConfirmIds : ConfirmFindFailed(t)
  \/ \E t \in ConfirmIds : ConfirmFind(t)
  \/ \E t \in ConfirmIds : ConfirmOwnFailed(t)
  \/ \E t \in ConfirmIds, supply \in Supplies, balance \in Balances : ConfirmOwn(t, supply, balance)
  \/ \E t \in ConfirmIds, ok \in BOOLEAN : ConfirmApprove(t, ok)
  \/ \E t \in ConfirmIds, outcome \in InviteOutcomes : ConfirmInvite(t, outcome)

SpecReplay == InitReplay /\ [][NextReplay]_vars

----------------------------------------------------------------------------
(* After an admission: identity u1 was verified for wallet w1 on the transfer *)
(* with signature 1, which stays in the wallet's recent history; u1 and u2    *)
(* then issue challenges for w1 and confirm them, and no new transfer is made *)

InitReuse ==
  /\ scope = [users |-> Users, wallets |-> {"w1"}, codes |-> {2000}, groups |-> {"g1"},
              slots |-> {"c1"}, runs |-> {"s1"}]
  /\ cfgGroupId \in {NullStr, "g1"}
  /\ db = Admit(Store([u \in Users |-> EmptyRow]), "u1", "w1", cfgGroupId).users
  /\ out = Quiet
  /\ now = 0
  /\ chain = [w \in Wallets |-> IF w = "w1" THEN <<TransferTx(1, 2000)>> ELSE << >>]
  /\ conf = [t \in ConfirmIds |-> IdleConf]
  /\ sweep = [s \in SweepIds |-> IdleSweep]
  /\ wl = IdleHandler
  /\ jr = IdleHandler
  /\ admitted = [u \in Users |-> u = "u1"]
  /\ shortfall = [u \in Users |-> FALSE]
  /\ scan = IdleScan
  /\ eval = IdleEval

NextReuse ==
  \/ Tick
  \/ \E u \in scope.users, w \in scope.wallets, a \in scope.codes : handleVerify(u, w, a)
  \/ \E u \in scope.users : ConfirmRejected(u)
  \/ \E u \in scope.users : ConfirmExpired(u)
  \/ \E u \in scope.users : ConfirmBegin(u)
  \/ \E t \in ConfirmIds : ConfirmFindFailed(t)
  \/ \E t \in ConfirmIds : ConfirmFind(t)
  \/ \E t \in ConfirmIds : ConfirmOwnFailed(t)
  \/ \E t \in ConfirmIds, supply \in Supplies, balance \in Balances : ConfirmOwn(t, supply, balance)
  \/ \E t \in ConfirmIds, ok \in BOOLEAN : ConfirmApprove(t, ok)
  \/ \E t \in ConfirmIds, outcome \in InviteOutcomes : ConfirmInvite(t, outcome)

SpecReuse == InitReuse /\ [][NextReuse]_vars

----------------------------------------------------------------------------
(* The match test of findMatchingTransfer applied to one transfer and two   *)
(* challenge amounts                                                        *)

\* challenge amounts on the 1e-9 grid of the issuer: two neighbours, and
\* amounts half a tolerance to three tolerances above them
IssuedAmounts == {2000, 2001} \cup {2000 + k * (TOLERANCE \div 2) : k \in 1..6}

\* the amounts the holder's and the treasury's sides of the transfer show
SideAmounts == {2000, 2001, 3000, 4000}

\* the test of line 336 on the deltas of lines 329-330 of transaction tx
DeltasMatch(tx, expectedAmount) ==
  /\ almostEqual(FSub(UiAmount(tx.userPre), UiAmount(tx.userPost)), Amount(expectedAmount))
  /\ almostEqual(FSub(UiAmount(tx.treasuryPost), UiAmount(tx.treasuryPre)),
                 Amount(expectedAmount))

InitDistinct ==
  /\ scope = [users |-> {}, wallets |-> {}, codes |-> {}, groups |-> {}, slots |-> {},
              runs |-> {"s1"}]
  /\ cfgGroupId = NullStr
  /\ InitHandlers
  /\ scan = IdleScan
  /\ \E c1 \in IssuedAmounts, c2 \in IssuedAmounts, user \in SideAmounts,
        treasury \in SideAmounts :
       eval = [pc |-> "call", c1 |-> c1, c2 |-> c2,
               tx |-> [TransferTx(1, user) EXCEPT !.treasuryPost = treasury],
               first |-> FALSE, second |-> FALSE]

ApplyDistinct ==
  /\ eval.pc = "call"
  /\ eval' = [eval EXCEPT !.pc = "done", !.first = DeltasMatch(eval.tx, eval.c1),
                          !.second = DeltasMatch(eval.tx, eval.c2)]
  /\ UNCHANGED <<scope, cfgGroupId, db, out, now, chain, conf, sweep, wl, jr, admitted,
                 shortfall, scan>>

NextDistinct == ApplyDistinct

SpecDistinct == InitDistinct /\ [][NextDistinct]_vars

----------------------------------------------------------------------------
(* One pending challenge whose transfer is on the ledger, and /confirm sent  *)
(* twice: the second handler can start while the first awaits a call         *)

InitTwice ==
  /\ scope = [users |-> {"u1"}, wallets |-> {"w1"}, codes |-> {2000}, groups |-> {"g1"},
              slots |-> ConfirmIds, runs |-> {"s1"}]
  /\ cfgGroupId \in {NullStr, "g1"}
  /\ db = saveVerificationRequest(upsertUser(Store([u \in Users |-> EmptyRow]), "u1"),
                                  "u1", "w1", 2000, VERIFICATION_WINDOW_MINUTES,
                                  cfgGroupId).users
  /\ out = Quiet
  /\ now = 0
  /\ chain = [w \in Wallets |-> IF w = "w1" THEN <<TransferTx(1, 2000)>> ELSE << >>]
  /\ conf = [t \in ConfirmIds |-> IdleConf]
  /\ sweep = [s \in SweepIds |-> IdleSweep]
  /\ wl = IdleHandler
  /\ jr = IdleHandler
  /\ admitted = [u \in Users |-> FALSE]
  /\ shortfall = [u \in Users |-> FALSE]
  /\ scan = IdleScan
  /\ eval = IdleEval

NextTwice ==
  \/ \E u \in scope.users : ConfirmRejected(u)
  \/ \E u \in scope.users : ConfirmBegin(u)
  \/ \E t \in ConfirmIds : ConfirmFindFailed(t)
  \/ \E t \in ConfirmIds : ConfirmFind(t)
  \/ \E t \in ConfirmIds : ConfirmOwnFailed(t)
  \/ \E t \in ConfirmIds, supply \in Supplies, balance \in Balances : ConfirmOwn(t, supply, balance)
  \/ \E t \in ConfirmIds, ok \in BOOLEAN : ConfirmApprove(t, ok)
  \/ \E t \in ConfirmIds, outcome \in InviteOutcomes : ConfirmInvite(t, outcome)

SpecTwice == InitTwice /\ [][NextTwice]_vars

----------------------------------------------------------------------------
(* Admission and removal: identity u1 asked for a challenge and then sent a  *)
(* join request to the one group of scope.groups, so that its pending        *)
(* request names that group; its transfer is on the ledger; /confirm and the *)
(* sweep follow                                                              *)

InitGroups ==
  /\ \E g \in Groups :
       /\ scope = [users |-> {"u1"}, wallets |-> {"w1"}, codes |-> {2000}, groups |-> {g},
                   slots |-> {"c1"}, runs |-> {"s1"}]
       /\ cfgGroupId \in {NullStr, "g1"}
       /\ db = setRequestedGroup(
                 saveVerificationRequest(upsertUser(Store([u \in Users |-> EmptyRow]), "u1"),
                                         "u1", "w1", 2000, VERIFICATION_WINDOW_MINUTES,
                                         cfgGroupId),
                 "u1", g).users
  /\ out = Quiet
  /\ now = 0
  /\ chain = [w \in Wallets |-> IF w = "w1" THEN <<TransferTx(1, 2000)>> ELSE << >>]
  /\ conf = [t \in ConfirmIds |-> IdleConf]
  /\ sweep = [s \in SweepIds |-> IdleSweep]
  /\ wl = IdleHandler
  /\ jr = IdleHandler
  /\ admitted = [u \in Users |-> FALSE]
  /\ shortfall = [u \in Users |-> FALSE]
  /\ scan = IdleScan
  /\ eval = IdleEval

NextGroups ==
  \/ \E u \in scope.users : ConfirmRejected(u)
  \/ \E u \in scope.users : ConfirmBegin(u)
  \/ \E t \in ConfirmIds : ConfirmFindFailed(t)
  \/ \E t \in ConfirmIds : ConfirmFind(t)
  \/ \E t \in ConfirmIds : ConfirmOwnFailed(t)
  \/ \E t \in ConfirmIds, supply \in Supplies, balance \in Balances : ConfirmOwn(t, supply, balance)
  \/ \E t \in ConfirmIds, ok \in BOOLEAN : ConfirmApprove(t, ok)
  \/ \E t \in ConfirmIds, outcome \in InviteOutcomes : ConfirmInvite(t, outcome)
  \/ \E s \in SweepIds : runOwnershipSweep(s)
  \/ \E s \in SweepIds : SweepEvalFailed(s)
  \/ \E s \in SweepIds, supply \in Supplies, balance \in Balances : SweepEval(s, supply, balance)
  \/ \E s \in SweepIds, ok \in BOOLEAN : SweepKick(s, ok)
  \/ \E s \in SweepIds, ok \in BOOLEAN : SweepUnban(s, ok)
  \/ \E s \in SweepIds, ok \in BOOLEAN : SweepMessage(s, ok)

SpecGroups == InitGroups /\ [][NextGroups]_vars

----------------------------------------------------------------------------
(* Properties *)

\* the share test of the threshold, on the two readings
Qualifies(supply, balance) == supply # 0 /\ balance * RequiredDen >= RequiredNum * supply

\* C1: a step lets an identity into a group (approves its join request or
\* delivers it an invite link) only while the identity's record is whitelisted,
\* or inside a confirm that found a matching transfer and whose ownership
\* evaluation qualified
AccessOnlyByConfirmOrWhitelist ==
  [][\A u \in Users, g \in Groups :
       <<u, g>> \in out'.granted =>
          \/ db[u].isWhitelisted
          \/ \E t \in ConfirmIds : /\ conf[t].telegramId = u
                                   /\ conf[t].pc \in {"approve", "invite"}
                                   /\ conf[t].transfer # NullNum
                                   /\ conf[t].isQualified]_vars

\* an identity that is not whitelisted has just been let in by its confirm
AccessByConfirmReached ==
  \E g \in Groups : <<"u1", g>> \in out.granted /\ ~db["u1"].isWhitelisted

\* C2: when a sweep has revoked an identity (the revoked event is logged), the
\* identity's record exists and has verified = false
RevokedIsUnverified ==
  \A k \in DOMAIN out.logged :
     out.logged[k].eventType = "ownership_revoked" =>
        db[out.logged[k].userId].present /\ ~db[out.logged[k].userId].verified

\* C3: every identity admitted by a successful confirm, not whitelisted and not
\* found below the threshold since, is in the list of every sweep run that
\* starts, whatever it sent in between
AdmittedIsSwept ==
  [][\A s \in SweepIds :
       runOwnershipSweep(s) =>
          \A u \in Users :
             admitted[u] /\ ~db[u].isWhitelisted =>
                \E j \in DOMAIN sweep'[s].users : sweep'[s].users[j].telegramId = u]_vars

\* C4: a sweep step that removes an identity from the group, or notifies it of
\* its removal and logs the revoked event, acts on an identity whose record is
\* not whitelisted at that moment
WhitelistedNeverRevoked ==
  [][\A s \in SweepIds :
       /\ sweep[s].pc \in {"kick", "message"}
       /\ sweep'[s] # sweep[s]
       /\ out'.removed # {} \/ out'.reply = "removed"
       => ~db[SweepUser(s)].isWhitelisted]_vars

\* C5: a failing ownership evaluation in a sweep run leaves the users table as
\* it was and the run goes on: the evaluation of the next identity of the list
\* that is not skipped is started, and the run ends only when there is none
SweepFailureIsolated ==
  [][\A s \in SweepIds :
       sweep[s].pc = "eval" /\ out'.reply = "sweep_error" =>
          LET sw == sweep[s]
              later == {j \in (sw.i + 1)..Len(sw.users) :
                          ~sw.users[j].isWhitelisted /\ sw.users[j].walletAddress # NullStr}
          IN /\ db' = db
             /\ later = {} => sweep'[s].pc = "idle"
             /\ later # {} => /\ sweep'[s].pc = "eval"
                              /\ sweep'[s].users = sw.users
                              /\ sweep'[s].i \in later
                              /\ \A j \in later : sweep'[s].i <= j
                              /\ out'.ledger = OwnershipCalls]_vars

\* the evaluation of the first of two identities has failed and the second
\* one's evaluation is in flight
SweepContinuedAfterFailure ==
  /\ out.reply = "sweep_error"
  /\ sweep["s1"].pc = "eval"
  /\ Len(sweep["s1"].users) = 2
  /\ sweep["s1"].i = 2

\* C6: the step of a confirm whose transfer matched and whose ownership
\* evaluation qualifies leaves the record verified, verifiedAt = now,
\* lastBalance = the evaluated balance and both challenge fields null, logs the
\* verified event, and starts the admission to the group the confirm read
\* (the requested group, else the configured one)
ConfirmSuccess ==
  [][\A t \in ConfirmIds, supply \in Supplies, balance \in Balances :
       Qualifies(supply, balance) /\ ConfirmOwn(t, supply, balance) =>
          LET u == conf[t].telegramId
              requested == conf[t].user.requestedGroupId
              g == IF requested # NullStr THEN requested ELSE cfgGroupId
          IN /\ db'[u].verified
             /\ db'[u].verifiedAt = now
             /\ db'[u].lastBalance = balance
             /\ db'[u].verificationCode = NullNum
             /\ db'[u].verificationExpiresAt = NullNum
             /\ \E k \in DOMAIN out'.logged : out'.logged[k].eventType = "verified"
             /\ g # NullStr =>
                   /\ conf'[t].telegramId = u
                   /\ conf'[t].user = conf[t].user
                   /\ conf'[t].pc = IF requested # NullStr THEN "approve" ELSE "invite"
             /\ g = NullStr => conf'[t].pc = "idle" /\ out'.reply = "verified"]_vars

\* a confirm has just verified the record and its admission is under way
ConfirmSuccessReached ==
  /\ db["u1"].verified
  /\ \E k \in DOMAIN out.logged : out.logged[k].eventType = "verified"
  /\ conf["c1"].telegramId = "u1"
  /\ conf["c1"].pc = "approve"

ShortfallKeepsChallenge ==
  [][\A t \in ConfirmIds, supply \in Supplies, balance \in Balances :
       supply # 0 /\ ConfirmOwn(t, supply, balance) =>
          LET u == conf[t].telegramId
          IN IF ~Qualifies(supply, balance)
             THEN db' = db /\ ~db'[u].verified /\ out'.granted = {}
             ELSE shortfall[u] /\ conf[t].user.verificationCode = db[u].verificationCode
                     => db'[u].verified]_vars

\* after a confirm that found the holdings too low, a further confirm of the
\* untouched challenge has found the transfer again and is being evaluated
RetryAfterShortfallReached ==
  /\ shortfall["u1"]
  /\ conf["c1"].pc = "own"
  /\ conf["c1"].user.verificationCode = db["u1"].verificationCode
  /\ db["u1"].verificationExpiresAt # NullNum

\* C9: the step that ends a confirm because no transfer matched or because a
\* ledger call failed changes nothing in the users table, logs no event and
\* lets nobody in
FailedConfirmChangesNothing ==
  [][\A t \in ConfirmIds :
       \/ ConfirmFindFailed(t)
       \/ ConfirmFind(t) /\ conf'[t].pc = "idle"
       \/ ConfirmOwnFailed(t)
       \/ \E balance \in Balances : ConfirmOwn(t, 0, balance)
       => db' = db /\ out'.logged = << >> /\ out'.granted = {}]_vars

\* a confirm has just ended without a match although the wallet has a transfer
\* on the ledger, the challenge still pending
FailedConfirmReached ==
  /\ out.reply = "no_match"
  /\ db["u1"].walletAddress # NullStr
  /\ chain[db["u1"].walletAddress] # << >>
  /\ db["u1"].verificationCode # NullNum
  /\ db["u1"].verificationExpiresAt # NullNum
  /\ ~db["u1"].verified

\* C10: /verify with a wallet leaves the record with the drawn amount, expiry
\* now + 30 minutes, the given wallet and verified = false, whatever the record
\* held before, appends exactly one requested event carrying that amount and
\* expiry, and calls no ledger method
IssueOverwrites ==
  [][\A u \in Users, w \in Wallets, a \in CodeChoices :
       handleVerify(u, w, a) =>
          /\ db'[u].present
          /\ db'[u].verificationCode = a
          /\ db'[u].verificationExpiresAt = now + 30
          /\ db'[u].walletAddress = w
          /\ ~db'[u].verified
          /\ out'.logged = <<[userId |-> u, eventType |-> "verification_requested",
                              payload |-> [NoPayload EXCEPT !.wallet = w, !.amount = a,
                                                            !.expires = now + 30]]>>
          /\ out'.ledger = {}]_vars

\* a challenge has just been issued on a record that a confirm had verified
ReissueOnVerifiedReached ==
  /\ out.reply = "instructions"
  /\ db["u1"].verifiedAt # NullNum
  /\ db["u1"].verificationCode # NullNum
  /\ ~db["u1"].verified

\* C11: the scan fetches the transactions in the order of the listed
\* signatures, newest first; the signature it returns is the first one whose
\* transaction matches, whether or not an older one matches too, and
\* getTransaction was called for the signatures up to the returned one and for
\* none after it.  A scan that listed the whole history and met no failed call
\* returns what findMatchingTransfer computes on it.
FirstMatchReturned ==
  /\ \A j \in 1..Len(scan.fetched) : j <= Len(scan.sigs) /\ scan.fetched[j] = scan.sigs[j].signature
  /\ scan.pc \in {"done", "returned"} /\ scan.result # NullNum =>
       \E k \in 1..Len(scan.sigs) :
         /\ TxMatches(scan.sigs[k], scan.expectedAmount)
         /\ \A j \in 1..(k - 1) : ~TxMatches(scan.sigs[j], scan.expectedAmount)
         /\ scan.result = scan.sigs[k].signature
         /\ scan.fetched = [j \in 1..k |-> scan.sigs[j].signature]
  /\ scan.pc \in {"done", "returned"} /\ scan.reply # "failed" /\ scan.sigs = scan.history =>
       scan.result = findMatchingTransfer(scan.history, scan.expectedAmount)

\* the newest of two matching transactions was returned after one lookup
NewestOfTwoReturned ==
  /\ scan.pc = "returned"
  /\ Len(scan.sigs) = 2
  /\ TxMatches(scan.sigs[1], scan.expectedAmount)
  /\ TxMatches(scan.sigs[2], scan.expectedAmount)
  /\ scan.result = scan.sigs[1].signature
  /\ scan.fetched = <<scan.sigs[1].signature>>
  /\ scan.reply = "found"

\* C12: almostEqual(a, b) holds exactly when the amounts a and b differ by at
\* most 1e-6: it holds at a difference of exactly 1e-6 and fails at every larger
\* one.
ToleranceBoundary ==
  eval.pc = "done" => (eval.result <=> Abs(eval.a - eval.b) <= TOLERANCE)

\* the amount x, an absent entry counting as zero, in units of 1e-9
Units(x) == IF x = NullNum THEN 0 ELSE x

\* the transaction shows the holder's three entries, the holder losing and the
\* treasury gaining the expected amount, each within the tolerance
BothSides(tx, expectedAmount) ==
  /\ tx.meta
  /\ tx.userPre # NullNum /\ tx.userPost # NullNum /\ tx.treasuryPost # NullNum
  /\ Abs((Units(tx.userPre) - Units(tx.userPost)) - expectedAmount) <= TOLERANCE
  /\ Abs((Units(tx.treasuryPost) - Units(tx.treasuryPre)) - expectedAmount) <= TOLERANCE

\* C13: the signature the scan returns is one whose transaction has both
\* userDelta = holderPre - holderPost and treasuryDelta = treasuryPost -
\* treasuryPre within the tolerance of the expected amount (never a transaction
\* where one side only matches); the caller is told "no match" only after every
\* listed signature was looked up and none satisfied both sides.
BothSidesMatch ==
  /\ scan.result # NullNum =>
       \E k \in 1..Len(scan.sigs) :
         scan.sigs[k].signature = scan.result /\ BothSides(scan.sigs[k], scan.expectedAmount)
  /\ scan.reply = "no_match" =>
       /\ Len(scan.fetched) = Len(scan.sigs)
       /\ \A k \in 1..Len(scan.sigs) : ~BothSides(scan.sigs[k], scan.expectedAmount)

\* "no match" after a scan over a transaction where only the holder's side
\* matches and one where only the treasury's side matches
OneSidedNotReturned ==
  /\ scan.reply = "no_match"
  /\ Len(scan.fetched) = 2
  /\ \E j, k \in 1..Len(scan.sigs) :
       /\ scan.sigs[j] = ToOther(scan.sigs[j].signature, scan.expectedAmount)
       /\ scan.sigs[k] = FromOther(scan.sigs[k].signature, scan.expectedAmount)

\* C14: when getSignaturesForAddress or a getTransaction call fails, the scan
\* ends there as a rejection, with no signature returned; handleConfirm then
\* answers with the failure message, not with "no transfer found", and no
\* further transaction is looked up.
ScanFailureAborts ==
  [][/\ (ScanList("failed") \/ ScanFetch(FALSE)) =>
          scan'.pc = "failed" /\ scan'.result = NullNum
     /\ scan.pc = "failed" =>
          scan'.pc = "returned" /\ scan'.reply = "failed" /\ scan'.fetched = scan.fetched]_vars

\* the first of two lookups failed while the older transaction matches
FailedBeforeMatchReached ==
  /\ scan.reply = "failed"
  /\ Len(scan.sigs) = 2
  /\ scan.fetched = <<scan.sigs[1].signature>>
  /\ TxMatches(scan.sigs[2], scan.expectedAmount)

\* C15: for every balance and every non-zero supply the evaluation returns
\* percentOwned = balance / supply and isQualified exactly when that share is at
\* least the required fraction, a share equal to it included.
ThresholdExact ==
  eval.pc = "done" =>
    (eval.isQualified <=> eval.balance * RequiredDen >= RequiredNum * PerToken * eval.supply)

\* C16: an evaluation that reads a total supply of zero throws the zero-supply
\* error and gives no verdict: in /confirm the record is left as it was, nobody
\* is verified or admitted and the handler ends with the failure message; in
\* the sweep the record is left as it was, no removal starts and the loop goes
\* on to the next identity.
ZeroSupplyNoVerdict ==
  [][/\ \A t \in ConfirmIds, balance \in Balances :
          ConfirmOwn(t, 0, balance) =>
            /\ db' = db
            /\ out'.thrown = "zero_supply" /\ out'.reply = "failed"
            /\ out'.granted = {} /\ out'.logged = << >>
            /\ conf'[t] = IdleConf
            /\ admitted' = admitted
     /\ \A s \in SweepIds, balance \in Balances :
          SweepEval(s, 0, balance) =>
            /\ db' = db
            /\ out'.thrown = "zero_supply" /\ out'.reply = "sweep_error"
            /\ out'.removed = {} /\ out'.logged = << >>
            /\ sweep'[s] = SweepNext(sweep[s])
            /\ admitted' = admitted]_vars

\* a sweep read a zero supply for the identity a /confirm admitted before,
\* which stays verified, while the sweep goes on with the next identity
ZeroSupplySweepReached ==
  /\ out.thrown = "zero_supply"
  /\ out.reply = "sweep_error"
  /\ db["u1"].verified
  /\ admitted["u1"]
  /\ sweep["s1"].pc = "eval"

\* C17: in every record the challenge amount and the challenge expiry are both
\* set or both absent.
ChallengePaired ==
  \A u \in Users :
    (db[u].verificationCode = NullNum) <=> (db[u].verificationExpiresAt = NullNum)

\* an expired /confirm has just cleared the challenge of a record that had one
ChallengeClearedReached ==
  /\ out.reply = "expired"
  /\ db["u1"].walletAddress # NullStr
  /\ db["u1"].verificationCode = NullNum
  /\ db["u1"].verificationExpiresAt = NullNum

\* C18: a record with verified = true has its verification time set and a
\* non-empty wallet address.
VerifiedHasStampAndWallet ==
  \A u \in Users :
    db[u].verified => db[u].verifiedAt # NullNum /\ db[u].walletAddress # NullStr

\* a /confirm has just marked the record verified
JustVerifiedReached ==
  /\ \E k \in 1..Len(out.logged) : out.logged[k].eventType = "verified"
  /\ db["u1"].verified
  /\ db["u1"].verifiedAt = now
  /\ db["u1"].walletAddress \in Wallets

\* C19: /whitelist from an admin sets whitelisted = true on the target record
\* whatever its state; when the record has a pending access request the
\* approval of that request is called in the same handler, and once the
\* identity has been let in the pending request is cleared.
WhitelistAdmitsAndClears ==
  [][/\ \A sender \in adminIds, targetId \in Users :
          handleWhitelist(sender, targetId) =>
            /\ db'[targetId].isWhitelisted
            /\ db[targetId].requestedGroupId # NullStr =>
                 wl' = [pc |-> "approve", user |-> targetId,
                        group |-> db[targetId].requestedGroupId]
     /\ \A outcome \in ApprovalOutcomes :
          WhitelistApprove(outcome) /\ out'.granted # {} =>
            db'[wl.user].requestedGroupId = NullStr]_vars

\* C20: /whitelist from a sender who is not a configured admin leaves every
\* record unchanged, writes no event, starts no approval and lets nobody in;
\* a whitelist flag changes only in a step of /whitelist sent by an admin.
OnlyAdminsWhitelist ==
  [][/\ \A sender \in Senders \ adminIds, targetId \in Users :
          handleWhitelist(sender, targetId) =>
            /\ db' = db
            /\ wl' = wl
            /\ out' = Emit(<< >>, {}, "not_authorized", {}, {})
     /\ (\E u \in Users : db'[u].isWhitelisted # db[u].isWhitelisted) =>
          \E sender \in adminIds, targetId \in Users : handleWhitelist(sender, targetId)]_vars

\* a sender who is no admin was refused while the target has a pending access
\* request and is not whitelisted
OutsiderRefusedReached ==
  /\ out.reply = "not_authorized"
  /\ db["u1"].requestedGroupId # NullStr
  /\ ~db["u1"].isWhitelisted
  /\ wl = IdleHandler

\* C21: for an identity whose record is whitelisted the ownership evaluation
\* decides nothing: a confirm of such an identity is never refused for holdings
\* below the threshold, and a sweep never starts a removal of such an identity
\* on the result of an evaluation.
WhitelistBypassesThreshold ==
  [][/\ \A t \in ConfirmIds, supply \in Supplies, balance \in Balances :
          ConfirmOwn(t, supply, balance) /\ db[conf[t].telegramId].isWhitelisted =>
            out'.reply # "below_threshold"
     /\ \A s \in SweepIds, supply \in Supplies, balance \in Balances :
          SweepEval(s, supply, balance) /\ db[SweepUser(s)].isWhitelisted =>
            sweep'[s].pc \notin {"kick", "message"}]_vars

\* C22: between the read of a record by a handler or a sweep run and the write
\* that handler or run makes on the strength of that read, no step of another
\* handler or run changes the record: while a confirm awaits its lookup or its
\* evaluation, a sweep awaits an evaluation, or /whitelist or a join request
\* awaits its approval, every step that is not theirs leaves the record of
\* their identity as it is.
ReadModifyWriteAtomic ==
  [][/\ \A t \in ConfirmIds :
          conf[t].pc \in {"find", "own"} /\ conf'[t] = conf[t] =>
            db'[conf[t].telegramId] = db[conf[t].telegramId]
     /\ \A s \in SweepIds :
          sweep[s].pc = "eval" /\ sweep'[s] = sweep[s] => db'[SweepUser(s)] = db[SweepUser(s)]
     /\ wl.pc = "approve" /\ wl' = wl => db'[wl.user] = db[wl.user]
     /\ jr.pc = "approve" /\ jr' = jr => db'[jr.user] = db[jr.user]]_vars

RemovalIsLogged ==
  [][\A s \in SweepIds :
       /\ sweep[s].pc = "unban" /\ sweep'[s] # sweep[s] => sweep'[s].pc = "message"
       /\ cfgGroupId # NullStr /\ sweep[s].pc = "message" /\ sweep'[s] # sweep[s] =>
            \E k \in DOMAIN out'.logged :
              /\ out'.logged[k].eventType = "ownership_revoked"
              /\ out'.logged[k].userId = SweepUser(s)]_vars

\* C25: the step of a sweep in which an evaluation returns a verdict stores the
\* evaluated balance and the time of the check in the identity's record,
\* whether or not the verdict qualifies, and performs no removal yet; every
\* later step of the removal (kick, unban, notification), failed or not, writes
\* nothing to the users table.
BalanceStoredFirst ==
  [][\A s \in SweepIds :
       /\ \A supply \in Supplies \ {0}, balance \in Balances :
            SweepEval(s, supply, balance) =>
              /\ db'[SweepUser(s)].lastBalance = balance
              /\ db'[SweepUser(s)].lastCheckedAt = now
              /\ out'.removed = {}
       /\ sweep[s].pc \in {"kick", "unban", "message"} /\ sweep'[s] # sweep[s] =>
            db' = db]_vars

\* the kick of an identity found below the threshold has just failed and the
\* record holds the balance the evaluation read
FailedRemovalKeepsBalance ==
  /\ out.reply = "sweep_error"
  /\ out.thrown = NullStr
  /\ out.removed = {}
  /\ db["u1"].lastBalance = 5
  /\ db["u1"].verified

\* C26: the step of a sweep in which an evaluation returns a qualifying verdict
\* changes nothing but lastBalance and lastCheckedAt of the evaluated identity:
\* every other field and every other record is as before, no event is logged,
\* nobody is let in or removed, and the run moves on to the next identity
\* without starting a removal.
QualifyingSweepRefreshesOnly ==
  [][\A s \in SweepIds, supply \in Supplies, balance \in Balances :
       Qualifies(supply, balance) /\ SweepEval(s, supply, balance) =>
         /\ db' = [db EXCEPT ![SweepUser(s)].lastBalance = balance,
                             ![SweepUser(s)].lastCheckedAt = now]
         /\ out'.logged = << >>
         /\ out'.granted = {} /\ out'.removed = {}
         /\ sweep'[s] = SweepNext(sweep[s])
         /\ sweep'[s].pc \in {"idle", "eval"}]_vars

\* the first of two identities has just been found to qualify, its record
\* still verified, and the second one's evaluation is in flight
QualifiedAndRefreshedReached ==
  /\ sweep["s1"].pc = "eval"
  /\ sweep["s1"].i = 2
  /\ out.reply = NullStr
  /\ out.ledger = OwnershipCalls
  /\ sweep["s1"].users[1].telegramId = "u1"
  /\ ~Skipped(sweep["s1"].users[1])
  /\ db["u1"].verified
  /\ db["u1"].lastBalance = 10
  /\ db["u1"].lastCheckedAt = now

\* the transaction lacks its metadata or one of the holder's pre, the holder's
\* post and the treasury's post balance
Incomplete(tx) ==
  ~tx.meta \/ tx.userPre = NullNum \/ tx.userPost = NullNum \/ tx.treasuryPost = NullNum

\* C27: the step that examines a transaction without metadata, or without the
\* holder's pre, the holder's post or the treasury's post balance, returns
\* nothing and moves the scan to the next signature (ending it with "no match"
\* after the last); no such transaction's signature is ever returned.  A
\* transaction with those three balances and no pre balance of the treasury is
\* examined with the treasury's pre balance as zero: it is returned exactly when
\* the holder's loss and the treasury's post balance are each within the
\* tolerance of the expected amount.
IncompleteIsSkipped ==
  [][ScanFetch(TRUE) =>
       LET tx == scan.sigs[scan.i]
       IN /\ Incomplete(tx) =>
               /\ scan'.result = NullNum
               /\ scan'.i = scan.i + 1
               /\ scan'.pc = IF scan.i < Len(scan.sigs) THEN "fetch" ELSE "done"
          /\ ~Incomplete(tx) /\ tx.treasuryPre = NullNum =>
               (scan'.result = tx.signature <=>
                  /\ Abs((tx.userPre - tx.userPost) - scan.expectedAmount) <= TOLERANCE
                  /\ Abs(tx.treasuryPost - scan.expectedAmount) <= TOLERANCE)
          /\ scan'.result # NullNum => scan'.result = tx.signature /\ ~Incomplete(tx)]_vars

\* the scan skipped a transfer of the expected amount that closed the holder's
\* account (no post balance) and returned the older transfer, whose record of
\* the treasury has no pre balance
SkippedThenFoundReached ==
  /\ scan.reply = "found"
  /\ Len(scan.fetched) = 2
  /\ scan.sigs[1] = Closing(2, scan.expectedAmount)
  /\ scan.sigs[2] = TransferTx(1, scan.expectedAmount)
  /\ scan.sigs[2].treasuryPre = NullNum
  /\ scan.result = 1

\* C28: at most one ownership evaluation started by the sweep is awaited at
\* any moment, whenever the timer fires.
OneEvaluationInFlight ==
  Cardinality({s \in SweepIds : sweep[s].pc = "eval"}) <= 1

\* C29: the evaluation returns a verdict only when the supply read and the
\* balance read have both returned a value; the verdict is then the one the two
\* values determine, whichever read settled first; and once either read has
\* failed the evaluation has failed, with no verdict, whatever the other read
\* does.
JoinOnBothReads ==
  /\ eval.pc = "done" =>
       /\ eval.supplyDone /\ eval.balanceDone
       /\ eval.supplyReply \in ReadSupplies \ {0} /\ eval.balanceReply \in ReadBalances
       /\ eval.isQualified <=> eval.balanceReply * RequiredDen >= RequiredNum * eval.supplyReply
       /\ eval.balance = eval.balanceReply
  /\ (\/ eval.supplyDone /\ eval.supplyReply = RpcFailed
      \/ eval.balanceDone /\ eval.balanceReply = RpcFailed) =>
       eval.pc = "failed" /\ eval.thrown = "rpc"
  /\ eval.pc # "done" => ~eval.isQualified /\ eval.balance = NullNum
  /\ eval.pc = "await" => ~(eval.supplyDone /\ eval.balanceDone)

\* a qualifying verdict was returned after the balance read settled first
BalanceFirstVerdictReached ==
  /\ eval.pc = "done"
  /\ eval.first = "balance"
  /\ eval.isQualified
  /\ eval.balanceReply * RequiredDen = RequiredNum * eval.supplyReply

\* how far a run is: the index of the identity it is at and the call it awaits
Progress(sw) ==
  4 * sw.i + (CASE sw.pc = "kick" -> 1 [] sw.pc = "unban" -> 2 [] sw.pc = "message" -> 3
                [] OTHER -> 0)

\* C30: when every remote call returns or fails, a sweep run that has started
\* ends.  Each step of a run either ends it or moves it forward in the list it
\* loaded at its start, which it keeps and which names no identity twice: an
\* evaluation, failed or not, is followed by the removal of the same identity
\* or by the evaluation of a later one, never by an evaluation of the same or
\* an earlier one.
SweepRunTerminates ==
  /\ [][\A s \in SweepIds :
          SweepStep(s) /\ sweep'[s].pc # "idle" =>
            /\ sweep'[s].users = sweep[s].users
            /\ Progress(sweep'[s]) > Progress(sweep[s])
            /\ \A j, k \in DOMAIN sweep[s].users :
                 sweep[s].users[j].telegramId = sweep[s].users[k].telegramId => j = k]_vars
  /\ \A s \in SweepIds : (sweep[s].pc # "idle") ~> (sweep[s].pc = "idle")

\* the evaluation of the last identity of a run over two has just failed and
\* the run has ended
RunEndedAfterFailureReached ==
  /\ out.reply = "sweep_error"
  /\ out.thrown = "rpc"
  /\ out.ledger = {}
  /\ sweep["s1"] = IdleSweep
  /\ \A u \in Users : db[u].verified /\ ~db[u].isWhitelisted

\* C31: a confirm marks an identity verified only on a transfer made after the
\* identity's pending challenge was issued.  Where every transfer of the wallet
\* was on the ledger before the first challenge was issued and none is made
\* afterwards, no step of a confirm marks the identity verified.
FreshTransferOnly ==
  [][\A t \in ConfirmIds, supply \in Supplies, balance \in Balances :
       ConfirmOwn(t, supply, balance) => ~db'[conf[t].telegramId].verified]_vars

\* C32: a transfer that has verified an identity verifies nothing again.  The
\* transfer with signature 1 verified u1 before the first state; no later step
\* of a confirm that found this transfer, for a new challenge of u1 or for a
\* challenge of u2 on the same wallet, appends a verified event.
TransferConfirmsOnce ==
  [][\A t \in ConfirmIds, supply \in Supplies, balance \in Balances :
       ConfirmOwn(t, supply, balance) /\ conf[t].transfer = 1 =>
         \A k \in DOMAIN out'.logged : out'.logged[k].eventType # "verified"]_vars

\* C33: two distinct amounts the issuer can produce are never both matched by
\* the same transfer: when the match test was applied to one transaction for
\* the challenge amounts c1 and c2 and c1 differs from c2, it did not hold for
\* both.
ChallengeAmountsDistinguished ==
  eval.pc = "done" /\ eval.c1 # eval.c2 => ~(eval.first /\ eval.second)

\* C34: the step of a confirm that marks the identity verified leaves in the
\* record the wallet the confirm read when it began, the one whose history it
\* searched and whose balance it evaluated, also when a /verify for another
\* wallet was processed while the confirm was suspended.
VerifiedWalletIsEvaluatedWallet ==
  [][\A t \in ConfirmIds, supply \in Supplies, balance \in Balances :
       /\ ConfirmOwn(t, supply, balance)
       /\ \E k \in DOMAIN out'.logged : out'.logged[k].eventType = "verified"
       => db'[conf[t].telegramId].walletAddress = conf[t].user.walletAddress]_vars

\* C35: one issued challenge leads to at most one admission.  No challenge is
\* issued after the first state, so the step of a confirm that marks the
\* identity verified finds the challenge still pending in the record, not
\* consumed by another confirm; and a step that delivers an invite leaves no
\* other confirm of the identity on its way to an invite.
OneAdmissionPerChallenge ==
  [][/\ \A t \in ConfirmIds, supply \in Supplies, balance \in Balances :
          /\ ConfirmOwn(t, supply, balance)
          /\ \E k \in DOMAIN out'.logged : out'.logged[k].eventType = "verified"
          => db[conf[t].telegramId].verificationCode # NullNum
     /\ \A t \in ConfirmIds :
          ConfirmInvite(t, "sent") =>
            \A x \in ConfirmIds \ {t} :
              conf[x].telegramId = conf[t].telegramId => conf[x].pc \notin {"approve", "invite"}]_vars

\* C36: in every reachable state no record is verified and holds a pending
\* challenge at once: issuing a challenge resets verified, and the step that
\* marks a record verified clears its challenge.
VerifiedExcludesChallenge ==
  \A u \in Users : ~(db[u].verified /\ db[u].verificationCode # NullNum)

\* a confirm that was suspended while a new challenge was issued has just marked
\* the record verified and cleared that new challenge
VerifiedOverNewChallengeReached ==
  /\ \E k \in DOMAIN out.logged : out.logged[k].eventType = "verified"
  /\ db["u1"].verified
  /\ db["u1"].verificationCode = NullNum
  /\ db["u1"].walletAddress = "w2"
  /\ chain["w2"] = << >>

\* C37: the group a sweep removes an identity from is the group its confirm
\* admitted it to.  The identity's pending request names the one group of
\* scope.groups: every step of its confirm that lets it in lets it into that
\* group, and every step of a sweep that removes it removes it from that group.
RemovedFromAdmittedGroup ==
  [][/\ \A t \in ConfirmIds :
          (\E ok \in BOOLEAN : ConfirmApprove(t, ok))
            \/ (\E outcome \in InviteOutcomes : ConfirmInvite(t, outcome))
          => out'.granted \subseteq {<<conf[t].telegramId, g>> : g \in scope.groups}
     /\ \A s \in SweepIds, ok \in BOOLEAN :
          SweepKick(s, ok) => out'.removed \subseteq {<<SweepUser(s), g>> : g \in scope.groups}]_vars

\* C38: once the whitelisted flag of a record is true it is true in every
\* later state: no step of any handler or of the sweep resets it.
WhitelistedStays ==
  [][\A u \in Users : db[u].isWhitelisted => db'[u].isWhitelisted]_vars

\* a whitelisted identity that a confirm had verified has just been issued a
\* new challenge
WhitelistedReissuedReached ==
  /\ out.reply = "instructions"
  /\ db["u1"].isWhitelisted
  /\ db["u1"].verifiedAt # NullNum
  /\ db["u1"].verificationCode # NullNum

====
